---- MODULE Spec2Model ----
(***************************************************************************)
(* HiveLife (datboi6942/AI_LIFE): the per-tick agent simulation.           *)
(*                                                                         *)
(* State: the GameWindow's population list, event queue, tick counter,     *)
(* id counter and chirp-id iterator, the World's tile dictionary, and the  *)
(* position of GameWindow.on_update inside its agent loop.                 *)
(*                                                                         *)
(* Units.  Time is counted in ticks of 1/TICK_RATE_HZ s: dt, the memory    *)
(* ages and last_chirp_time are Python floats in seconds and are held here *)
(* as the number of ticks they amount to.  Lexicon weights are Python      *)
(* floats in [0,1] and are held as integers in units of 1/W_ONE, products  *)
(* truncated.  wander_propensity is held in units of 1/WP_ONE.             *)
(* Optional[...] values: None is <<>> for a coordinate, NoChirp for a      *)
(* chirp id, "none" for a concept.                                         *)
(***************************************************************************)
EXTENDS Integers, Sequences, FiniteSets, TLC

(* ------------------------------ config.py ------------------------------ *)
TICK_RATE_HZ == 60
BLOB_SIZE == 8
BLOB_MAX_NEEDS == 255
\* HUNGER_RATE = THIRST_RATE = 1.0 per second
HUNGER_RATE == 1
THIRST_RATE == 1
\* ENERGY_DECAY = 0.15 per second (the second assignment, config.py:61, wins),
\* as the fraction ENERGY_DECAY_NUM / ENERGY_DECAY_DEN
ENERGY_DECAY_NUM == 15
ENERGY_DECAY_DEN == 100
FOOD_FILL == 120
WATER_FILL == 120
GRID_STEP == 2
\* WANDER_RATE = 0.15, in units of 1/WP_ONE
WP_ONE == 10000
WANDER_RATE == 1500
HUNGER_SEEK == 100
THIRST_SEEK == 100
\* MEMORY_SPAN_S = 60.0 s
MEMORY_SPAN_S == 60
SEEK_SPEED == GRID_STEP
CHIRP_RADIUS == 32
CHIRP_VOLUME == 50
\* LEXICON_DECAY = 0.01 per second = 1 / LEXICON_DECAY_DEN
LEXICON_DECAY_DEN == 100
CONVERGENCE_INTERVAL == 5000
ENERGY_MAX == 300
REPRO_ENERGY_THRESH == 150
REPRO_ENERGY_COST == 50
\* REPRO_COOLDOWN_S = 15.0 s
REPRO_COOLDOWN_S == 15
REPRO_NEARBY_RADIUS == 32
REPRO_HUNGER_THRESH == 100
REPRO_THIRST_THRESH == 100
\* RESOURCE_REGEN_INTERVAL_S = 5.0 s
RESOURCE_REGEN_INTERVAL_S == 5
\* EXHAUSTION_GRACE = 60.0 s, MAX_LIFESPAN_S = 900 s: set in config.py, read
\* by no code of the package; the tests derive tick counts from them.
EXHAUSTION_GRACE == 60
MAX_LIFESPAN_S == 900
EXHAUSTION_GRACE_TICKS == EXHAUSTION_GRACE * TICK_RATE_HZ
MAX_LIFESPAN_TICKS == MAX_LIFESPAN_S * TICK_RATE_HZ
\* MAX_BLOBS is 500 in config.py; test_population_cap runs with
\* config.MAX_BLOBS = 3, the value used here.
MAX_BLOBS == 3
\* config.MAX_BLOBS as config.py sets it
CONFIG_MAX_BLOBS == 500
\* config.ENERGY_GAIN_ON_CONSUME is read by Blob.update (blob.py:138,145) and
\* set nowhere in the package: reading it raises AttributeError.  The value
\* below is what a configuration that supplies the name would hold.
ENERGY_GAIN_ON_CONSUME == 120

(* ------------------------------ world.py ResourceType ----------------- *)
EMPTY == 0
FOOD == 1
WATER == 2

(* ------------------------------ model bounds --------------------------- *)
\* World(width, height): a strip one blob high
WorldWidth == 42
WorldHeight == 8
\* on_update calls per run
MaxTick == 2
\* calls made from outside the tick loop (Blob.update, GameWindow.add_blob)
MaxExtCalls == 1
\* how often in a run _wander's random.random() < wander_propensity comes out
\* true; after that only the other outcome is followed
MaxRolls == 1
\* World(width, height) of the runs of spawn_resources: two cells in a row
PatchWidth == 4
PatchHeight == 2
\* spawn_resources: the largest food_n and water_n, and calls per run
MaxSpawn == 2
MaxSpawnCalls == 2

(* ------------------------------ units ---------------------------------- *)
W_ONE == 100000
NoChirp == -1
Concepts == {"food", "water"}

Max(a, b) == IF a >= b THEN a ELSE b
Min(a, b) == IF a <= b THEN a ELSE b
Abs(a) == IF a >= 0 THEN a ELSE -a
\* Python int(): truncation toward zero of the quotient n / d, d > 0
TruncDiv(n, d) == IF n >= 0 THEN n \div d ELSE -((-n) \div d)
\* blob.py _clamp
_clamp(value, low, high) == Max(low, Min(value, high))
\* (v // GRID_STEP) * GRID_STEP, Python floor division
GridAlign(v) == (v \div GRID_STEP) * GRID_STEP

\* GameWindow.__init__: random.seed(42); shuffle(list(range(256)))
ChirpIdPool ==
  << 234, 9, 103, 60, 5, 79, 232, 229, 45, 51, 131, 3, 168, 29, 170, 216,
     99, 161, 111, 204, 220, 209, 78, 89, 72, 191, 157, 119, 226, 184, 244, 134,
     21, 61, 175, 15, 223, 100, 230, 28, 128, 185, 84, 208, 164, 44, 113, 105,
     27, 85, 203, 146, 153, 130, 66, 42, 250, 140, 174, 133, 115, 4, 52, 73,
     65, 10, 104, 238, 30, 211, 46, 121, 2, 190, 159, 172, 112, 156, 95, 47,
     124, 177, 77, 202, 81, 38, 123, 13, 182, 242, 64, 33, 225, 0, 241, 122,
     210, 37, 106, 163, 82, 98, 34, 218, 187, 214, 125, 132, 120, 219, 252, 32,
     135, 215, 245, 48, 198, 222, 76, 231, 213, 192, 227, 144, 19, 152, 110, 12,
     217, 126, 196, 201, 248, 148, 109, 138, 63, 249, 200, 36, 197, 101, 127, 145,
     149, 54, 16, 167, 102, 80, 239, 181, 14, 83, 224, 142, 69, 176, 118, 171,
     251, 136, 43, 246, 155, 18, 165, 68, 53, 90, 94, 41, 93, 162, 116, 212,
     205, 25, 235, 193, 74, 58, 169, 199, 17, 180, 49, 147, 92, 158, 160, 75,
     141, 20, 96, 31, 137, 117, 186, 11, 67, 233, 88, 91, 24, 97, 237, 247,
     86, 195, 236, 39, 221, 87, 240, 178, 40, 206, 194, 1, 207, 71, 150, 114,
     56, 107, 243, 179, 166, 183, 50, 143, 254, 154, 129, 59, 55, 23, 7, 8,
     108, 151, 22, 139, 228, 253, 173, 26, 188, 35, 255, 62, 70, 189, 6, 57 >>

(* ------------------------------ derived tick counts -------------------- *)
\* blob.py:68 _reinforcement_delay_ticks
REINFORCEMENT_DELAY_TICKS == 180
\* blob.py:67 _chirp_cooldown = 0.5 s = CHIRP_COOLDOWN_NUM / CHIRP_COOLDOWN_DEN
CHIRP_COOLDOWN_NUM == 1
CHIRP_COOLDOWN_DEN == 2
\* blob.py:394 int(REPRO_COOLDOWN_S * TICK_RATE_HZ)
REPRO_COOLDOWN_TICKS == REPRO_COOLDOWN_S * TICK_RATE_HZ
\* game_window.py:194 int(RESOURCE_REGEN_INTERVAL_S * TICK_RATE_HZ)
RegenIntervalTicks == RESOURCE_REGEN_INTERVAL_S * TICK_RATE_HZ
\* MEMORY_SPAN_S in ticks
MemorySpanTicks == MEMORY_SPAN_S * TICK_RATE_HZ
\* blob.py:468 the energy an offspring is constructed with
OFFSPRING_ENERGY == 100
\* blob.py:51 the dataclass default of energy
DEFAULT_ENERGY == 100

VARIABLES
  blobs,            \* GameWindow.blobs: the population list, a sequence of Blob records
  events,           \* GameWindow.events: the per-tick event queue
  current_tick,     \* GameWindow.current_tick
  ticks_run,        \* how many on_update calls the run has made
  next_blob_id,     \* GameWindow.next_blob_id
  chirp_pos,        \* how many ids GameWindow._chirp_id_iterator has yielded
  used_chirp_ids,   \* GameWindow.used_chirp_ids
  convergence_log,  \* GameWindow.convergence_log
  tiles,            \* World.tiles: coordinate -> FOOD | WATER; an absent key is EMPTY
  config_has_gain,  \* whether config defines ENERGY_GAIN_ON_CONSUME
  config_chirp_volume, \* config.CHIRP_VOLUME as the run has it
  config_max_blobs, \* config.MAX_BLOBS as the run has it
  pc,               \* where on_update is: "idle" | "loop" | "raised"
  idx,              \* the position of on_update's for loop in blobs (1-based)
  delta_time,       \* the delta_time on_update was called with, in ticks
  ext_calls,        \* calls made so far from outside the tick loop
  rolls,            \* how often _wander has re-rolled the velocity so far
  heard_log,        \* history: one record per hearing step of an update
  emit_log,         \* history: one record per chirp event appended
  world,            \* the World's size and the call of spawn_resources in progress
  last              \* history: what the most recent step did and the state it started from

vars == << blobs, events, current_tick, ticks_run, next_blob_id, chirp_pos, used_chirp_ids,
           convergence_log, tiles, config_has_gain, config_chirp_volume, config_max_blobs, pc, idx,
           delta_time, ext_calls, rolls, heard_log, emit_log, world, last >>

(* ------------------------------ World ---------------------------------- *)
\* World.get_tile
get_tile(t, x, y) ==
  LET c == << GridAlign(x), GridAlign(y) >>
  IN  IF c \in DOMAIN t THEN t[c] ELSE EMPTY

\* World.consume_tile that marks the aligned cell EMPTY and keeps its entry
consume_tile_store_empty(t, x, y) ==
  LET c == << GridAlign(x), GridAlign(y) >>
  IN  IF c \in DOMAIN t THEN [t EXCEPT ![c] = EMPTY] ELSE t

\* World.consume_tile that leaves the tile where it is
consume_tile_kept(t, x, y) == t

\* World.consume_tile
consume_tile(t, x, y) ==
  LET c == << GridAlign(x), GridAlign(y) >>
  IN  IF c \in DOMAIN t THEN [k \in (DOMAIN t) \ {c} |-> t[k]] ELSE t

\* World.__init__: grid_width and grid_height
grid_width(w) == w.width \div GRID_STEP
grid_height(w) == w.height \div GRID_STEP

\* the coordinates _get_random_empty_coord can draw:
\* (randrange(grid_width) * GRID_STEP, randrange(grid_height) * GRID_STEP)
GridCells(w) ==
  { << gx * GRID_STEP, gy * GRID_STEP >> :
      gx \in 0..(grid_width(w) - 1), gy \in 0..(grid_height(w) - 1) }

\* _get_random_empty_coord: max_attempts
max_attempts(w) == grid_width(w) * grid_height(w) * 2

\* a World of the given size with no call of spawn_resources running; of a
\* call: its arguments, the iterations its two loops have left, the attempts
\* counter of the running _get_random_empty_coord, and (history) how many
\* tiles of each type it has written, what World.tiles was when it was called,
\* and how many calls there have been
IdleWorld(width, height) ==
  [ width |-> width, height |-> height, op |-> "idle",
    food_n |-> 0, water_n |-> 0, food_left |-> 0, water_left |-> 0,
    attempts |-> 0, placed_food |-> 0, placed_water |-> 0,
    before |-> << >>, calls |-> 0 ]

\* _get_random_empty_coord that returns the drawn coordinate whatever is on it
_get_random_empty_coord_step_any(t, coord) == coord

\* _get_random_empty_coord, one iteration of its loop on the drawn coordinate:
\* the coordinate if the cell is EMPTY, nothing (the loop goes on) if not
_get_random_empty_coord_step(t, coord) ==
  IF get_tile(t, coord[1], coord[2]) = EMPTY THEN coord ELSE << >>

\* spawn_resources: self.tiles[coord] = kind
set_tile(t, coord, kind) == (coord :> kind) @@ t

tile_is_food(t, x, y) == get_tile(t, x, y) = FOOD
tile_is_water(t, x, y) == get_tile(t, x, y) = WATER

(* ------------------------------ Blob ----------------------------------- *)
\* The Blob dataclass with its defaults.  age_ticks and ticks_at_zero_energy
\* are no fields of the dataclass: the tests under src/tests set them on a
\* blob as attributes, and no method of Blob reads or writes them.
Blob(id, x, y, wander_propensity, energy, hunger, thirst, last_repro_tick) ==
  [ id |-> id, wander_propensity |-> wander_propensity,
    x |-> x, y |-> y, vx |-> 0, vy |-> 0,
    hunger |-> hunger, thirst |-> thirst, energy |-> energy, alive |-> TRUE,
    last_food_pos |-> << >>, last_water_pos |-> << >>,
    food_mem_age |-> 0, water_mem_age |-> 0,
    last_repro_tick |-> last_repro_tick,
    lexicon |-> << >>, heard_chirps_pending_reinforcement |-> << >>,
    last_chirp_time |-> -TICK_RATE_HZ,
    last_emit_tick |-> 0, last_emit_concept |-> "none",
    age_ticks |-> 0, ticks_at_zero_energy |-> 0 ]

\* ---- the lexicon: a dict chirp id -> (dict concept -> weight), in insertion order
LexIndex(lex, cid) ==
  IF \E k \in 1..Len(lex) : lex[k].id = cid
  THEN CHOOSE k \in 1..Len(lex) : lex[k].id = cid
  ELSE 0

\* lexicon.setdefault(cid, {}).get(concept, 0.0), the value only
LexGet(lex, cid, concept) ==
  LET k == LexIndex(lex, cid)
  IN  IF k = 0 THEN 0
      ELSE IF concept \in DOMAIN lex[k].w THEN lex[k].w[concept] ELSE 0

\* lexicon.setdefault(cid, {})[concept] = weight
LexSet(lex, cid, concept, weight) ==
  LET k == LexIndex(lex, cid)
      put(w) == [c \in (DOMAIN w) \cup {concept} |-> IF c = concept THEN weight ELSE w[c]]
  IN  IF k = 0
      THEN Append(lex, [id |-> cid, w |-> put(<< >>)])
      ELSE [lex EXCEPT ![k] = [id |-> cid, w |-> put(lex[k].w)]]

\* Blob._process_heard_chirps: the concept a listener guesses from its needs
ConceptGuess(b) ==
  LET is_hungry == b.hunger >= HUNGER_SEEK
      is_thirsty == b.thirst >= THIRST_SEEK
  IN  IF is_hungry /\ is_thirsty
      THEN (IF b.hunger >= b.thirst THEN "food" ELSE "water")
      ELSE IF is_hungry THEN "food"
      ELSE IF is_thirsty THEN "water"
      ELSE "none"

\* math.hypot(dx, dy) < r, on integers
WithinOpen(dx, dy, r) == dx * dx + dy * dy < r * r
\* math.hypot(dx, dy) <= r, on integers
WithinClosed(dx, dy, r) == dx * dx + dy * dy <= r * r

\* HearOne with the radius itself still in earshot
HearOne_closed(b, ev, tick) ==
  IF ev[1] /= "chirp" \/ ev[2] = b.id THEN b
  ELSE IF ~WithinClosed(b.x - ev[4], b.y - ev[5], CHIRP_RADIUS) THEN b
  ELSE IF ConceptGuess(b) = "none" THEN b
  ELSE [b EXCEPT !.heard_chirps_pending_reinforcement =
          Append(@, << ev[3], ConceptGuess(b), tick + REINFORCEMENT_DELAY_TICKS >>)]

\* one iteration of the loop of _process_heard_chirps
HearOne(b, ev, tick) ==
  IF ev[1] /= "chirp" \/ ev[2] = b.id THEN b
  ELSE IF ~WithinOpen(b.x - ev[4], b.y - ev[5], CHIRP_RADIUS) THEN b
  ELSE IF ConceptGuess(b) = "none" THEN b
  ELSE [b EXCEPT !.heard_chirps_pending_reinforcement =
          Append(@, << ev[3], ConceptGuess(b), tick + REINFORCEMENT_DELAY_TICKS >>)]

RECURSIVE HearFrom(_, _, _, _)
HearFrom(b, evs, k, tick) ==
  IF k > Len(evs) THEN b ELSE HearFrom(HearOne(b, evs[k], tick), evs, k + 1, tick)

\* Blob._process_heard_chirps
_process_heard_chirps(b, evs, tick) == HearFrom(b, evs, 1, tick)

\* Blob._process_reinforcement_queue: entries whose expiry has arrived lower
\* their weight by 0.05 and leave the queue
RECURSIVE ExpireFrom_late(_, _, _, _)
ExpireFrom_late(lex, q, k, tick) ==
  IF k > Len(q) THEN lex
  ELSE IF tick > q[k][3]
       THEN ExpireFrom_late(LexSet(lex, q[k][1], q[k][2],
                                   Max(0, LexGet(lex, q[k][1], q[k][2]) - W_ONE \div 20)),
                            q, k + 1, tick)
       ELSE ExpireFrom_late(lex, q, k + 1, tick)

RECURSIVE ExpireFrom(_, _, _, _)
ExpireFrom(lex, q, k, tick) ==
  IF k > Len(q) THEN lex
  ELSE IF tick >= q[k][3]
       THEN ExpireFrom(LexSet(lex, q[k][1], q[k][2],
                              Max(0, LexGet(lex, q[k][1], q[k][2]) - W_ONE \div 20)),
                       q, k + 1, tick)
       ELSE ExpireFrom(lex, q, k + 1, tick)

_process_reinforcement_queue(b, tick) ==
  LET q == b.heard_chirps_pending_reinforcement
  IN  [b EXCEPT !.lexicon = ExpireFrom(@, q, 1, tick),
                !.heard_chirps_pending_reinforcement =
                    SelectSeq(q, LAMBDA e : ~(tick >= e[3]))]

\* ReinforceFrom without the cap at 1.0
RECURSIVE ReinforceFrom_uncapped(_, _, _, _)
ReinforceFrom_uncapped(lex, q, k, concept) ==
  IF k > Len(q) THEN lex
  ELSE IF q[k][2] = concept
       THEN ReinforceFrom_uncapped(LexSet(lex, q[k][1], q[k][2],
                                          LexGet(lex, q[k][1], q[k][2]) + W_ONE \div 5),
                                   q, k + 1, concept)
       ELSE ReinforceFrom_uncapped(lex, q, k + 1, concept)

\* Blob._apply_positive_reinforcement
RECURSIVE ReinforceFrom(_, _, _, _)
ReinforceFrom(lex, q, k, concept) ==
  IF k > Len(q) THEN lex
  ELSE IF q[k][2] = concept
       THEN ReinforceFrom(LexSet(lex, q[k][1], q[k][2],
                                 Min(W_ONE, LexGet(lex, q[k][1], q[k][2]) + W_ONE \div 5)),
                          q, k + 1, concept)
       ELSE ReinforceFrom(lex, q, k + 1, concept)

_apply_positive_reinforcement(b, concept) ==
  LET q == b.heard_chirps_pending_reinforcement
  IN  [b EXCEPT !.lexicon = ReinforceFrom(@, q, 1, concept),
                !.heard_chirps_pending_reinforcement =
                    SelectSeq(q, LAMBDA e : e[2] /= concept)]

\* Blob._decay_lexicon: every weight times (1 - LEXICON_DECAY * dt); weights
\* below 0.001 and chirp ids left without a concept are deleted
DecayWeights_unpruned(w, dt) ==
  LET D == LEXICON_DECAY_DEN * TICK_RATE_HZ
  IN  [c \in DOMAIN w |-> TruncDiv(w[c] * (D - dt), D)]

DecayWeights(w, dt) ==
  LET D == LEXICON_DECAY_DEN * TICK_RATE_HZ
      nw == [c \in DOMAIN w |-> TruncDiv(w[c] * (D - dt), D)]
      keep == {c \in DOMAIN w : ~(nw[c] < W_ONE \div 1000)}
  IN  [c \in keep |-> nw[c]]

_decay_lexicon(b, dt) ==
  LET decayed == [k \in 1..Len(b.lexicon) |->
                    [id |-> b.lexicon[k].id, w |-> DecayWeights(b.lexicon[k].w, dt)]]
  IN  [b EXCEPT !.lexicon = SelectSeq(decayed, LAMBDA e : DOMAIN e.w /= {})]

\* _decay_mem forgetting a memory already at the age MEMORY_SPAN_S
_decay_mem_at_span(b, dt, t) ==
  LET b1 == IF b.last_food_pos = << >> THEN b
            ELSE IF b.food_mem_age + dt >= MemorySpanTicks
                    \/ ~tile_is_food(t, b.last_food_pos[1], b.last_food_pos[2])
                 THEN [b EXCEPT !.last_food_pos = << >>, !.food_mem_age = 0]
                 ELSE [b EXCEPT !.food_mem_age = @ + dt]
  IN  IF b1.last_water_pos = << >> THEN b1
      ELSE IF b1.water_mem_age + dt >= MemorySpanTicks
              \/ ~tile_is_water(t, b1.last_water_pos[1], b1.last_water_pos[2])
           THEN [b1 EXCEPT !.last_water_pos = << >>, !.water_mem_age = 0]
           ELSE [b1 EXCEPT !.water_mem_age = @ + dt]

\* Blob._decay_mem
_decay_mem(b, dt, t) ==
  LET b1 == IF b.last_food_pos = << >> THEN b
            ELSE IF b.food_mem_age + dt > MemorySpanTicks
                    \/ ~tile_is_food(t, b.last_food_pos[1], b.last_food_pos[2])
                 THEN [b EXCEPT !.last_food_pos = << >>, !.food_mem_age = 0]
                 ELSE [b EXCEPT !.food_mem_age = @ + dt]
  IN  IF b1.last_water_pos = << >> THEN b1
      ELSE IF b1.water_mem_age + dt > MemorySpanTicks
              \/ ~tile_is_water(t, b1.last_water_pos[1], b1.last_water_pos[2])
           THEN [b1 EXCEPT !.last_water_pos = << >>, !.water_mem_age = 0]
           ELSE [b1 EXCEPT !.water_mem_age = @ + dt]

\* _decide_target with thirst breaking the ties
_decide_target_thirst_first(b) ==
  LET need_food == b.hunger >= HUNGER_SEEK /\ b.last_food_pos /= << >>
      need_water == b.thirst >= THIRST_SEEK /\ b.last_water_pos /= << >>
  IN  IF need_food /\ need_water
      THEN (IF b.hunger > b.thirst THEN b.last_food_pos ELSE b.last_water_pos)
      ELSE IF need_food THEN b.last_food_pos
      ELSE IF need_water THEN b.last_water_pos
      ELSE << >>

\* Blob._decide_target: the target coordinate, << >> for None
_decide_target(b) ==
  LET need_food == b.hunger >= HUNGER_SEEK /\ b.last_food_pos /= << >>
      need_water == b.thirst >= THIRST_SEEK /\ b.last_water_pos /= << >>
  IN  IF need_food /\ need_water
      THEN (IF b.hunger >= b.thirst THEN b.last_food_pos ELSE b.last_water_pos)
      ELSE IF need_food THEN b.last_food_pos
      ELSE IF need_water THEN b.last_water_pos
      ELSE << >>

\* Blob._get_dominant_chirp_for_concept: the first id, in insertion order, of
\* the strictly greatest weight above 0.5
RECURSIVE DominantFrom_last(_, _, _, _, _)
DominantFrom_last(lex, k, concept, best_id, max_weight) ==
  IF k > Len(lex) THEN best_id
  ELSE LET weight == IF concept \in DOMAIN lex[k].w THEN lex[k].w[concept] ELSE 0
       IN  IF weight >= max_weight /\ weight > W_ONE \div 2
           THEN DominantFrom_last(lex, k + 1, concept, lex[k].id, weight)
           ELSE DominantFrom_last(lex, k + 1, concept, best_id, max_weight)

RECURSIVE DominantFrom(_, _, _, _, _)
DominantFrom(lex, k, concept, best_id, max_weight) ==
  IF k > Len(lex) THEN best_id
  ELSE LET weight == IF concept \in DOMAIN lex[k].w THEN lex[k].w[concept] ELSE 0
       IN  IF weight > max_weight
           THEN DominantFrom(lex, k + 1, concept, lex[k].id, weight)
           ELSE DominantFrom(lex, k + 1, concept, best_id, max_weight)

\* _get_dominant_chirp_for_concept with a threshold below the 0.2 seed
_get_dominant_chirp_for_concept_seed(b, concept) ==
  DominantFrom(b.lexicon, 1, concept, NoChirp, W_ONE \div 10)

_get_dominant_chirp_for_concept(b, concept) ==
  DominantFrom(b.lexicon, 1, concept, NoChirp, W_ONE \div 2)

(* ------------------------------ GameWindow services -------------------- *)
\* add_blob without the population check
add_blob_uncapped(bl, blob) == Append(bl, blob)

\* GameWindow.add_blob
add_blob(bl, blob) == IF Len(bl) < config_max_blobs THEN Append(bl, blob) ELSE bl

\* GameWindow.get_nearby_blobs: the positions, in list order, of the living
\* blobs other than bl[i] within radius
get_nearby_blobs(bl, i, radius) ==
  SelectSeq([k \in 1..Len(bl) |-> k],
            LAMBDA j : ~(bl[j].id = bl[i].id \/ ~bl[j].alive)
                       /\ WithinClosed(bl[i].x - bl[j].x, bl[i].y - bl[j].y, radius))

\* GameWindow.get_new_chirp_id: next(iterator), skipping used ids; NoChirp on
\* StopIteration.  Returns the id, the iterator position and the used set.
RECURSIVE get_new_chirp_id(_, _)
get_new_chirp_id(pos, used) ==
  IF pos >= Len(ChirpIdPool)
  THEN [id |-> NoChirp, pos |-> pos, used |-> used]
  ELSE IF ChirpIdPool[pos + 1] \in used
       THEN get_new_chirp_id(pos + 1, used)
       ELSE [id |-> ChirpIdPool[pos + 1], pos |-> pos + 1,
             used |-> used \cup {ChirpIdPool[pos + 1]}]

(* ------------------------------ reproduction --------------------------- *)
\* can_reproduce with the cooldown not yet over at exact equality
can_reproduce_after_cooldown(b, tick, pop) ==
  /\ b.alive
  /\ ~(b.hunger >= REPRO_HUNGER_THRESH)
  /\ ~(b.thirst >= REPRO_THIRST_THRESH)
  /\ ~(b.energy < REPRO_ENERGY_THRESH)
  /\ ~(tick - b.last_repro_tick <= REPRO_COOLDOWN_TICKS)
  /\ ~(pop >= config_max_blobs)

\* can_reproduce without the cooldown check
can_reproduce_no_cooldown(b, tick, pop) ==
  /\ b.alive
  /\ ~(b.hunger >= REPRO_HUNGER_THRESH)
  /\ ~(b.thirst >= REPRO_THIRST_THRESH)
  /\ ~(b.energy < REPRO_ENERGY_THRESH)
  /\ ~(pop >= config_max_blobs)

\* Blob.can_reproduce; pop is len(game_window_ref.blobs)
can_reproduce(b, tick, pop) ==
  /\ b.alive
  /\ ~(b.hunger >= REPRO_HUNGER_THRESH)
  /\ ~(b.thirst >= REPRO_THIRST_THRESH)
  /\ ~(b.energy < REPRO_ENERGY_THRESH)
  /\ ~(tick - b.last_repro_tick < REPRO_COOLDOWN_TICKS)
  /\ ~(pop >= config_max_blobs)

\* find_mate returning the last eligible neighbour
find_mate_last(bl, i) ==
  LET near == get_nearby_blobs(bl, i, REPRO_NEARBY_RADIUS)
      ok == SelectSeq(near, LAMBDA j : /\ bl[j].alive
                                       /\ bl[j].hunger < REPRO_HUNGER_THRESH
                                       /\ bl[j].thirst < REPRO_THIRST_THRESH
                                       /\ bl[j].energy >= REPRO_ENERGY_THRESH)
  IN  IF ok = << >> THEN 0 ELSE ok[Len(ok)]

\* Blob.find_mate: the list position of the first eligible neighbour, 0 for None
find_mate(bl, i) ==
  LET near == get_nearby_blobs(bl, i, REPRO_NEARBY_RADIUS)
      ok == SelectSeq(near, LAMBDA j : /\ bl[j].alive
                                       /\ bl[j].hunger < REPRO_HUNGER_THRESH
                                       /\ bl[j].thirst < REPRO_THIRST_THRESH
                                       /\ bl[j].energy >= REPRO_ENERGY_THRESH)
  IN  IF ok = << >> THEN 0 ELSE ok[1]

\* the offspring's trait: max(0.01, (wp1 + wp2) / 2.0 * mutation_factor), with
\* mutation_factor = mut / 100 drawn from [0.95, 1.05]
OffspringWander(wp1, wp2, mut) == Max(WP_ONE \div 100, ((wp1 + wp2) * mut) \div 200)

\* reproduce_with charging the initiator only
reproduce_with_free_mate(c, i, m, tick, mut) ==
  LET bl == c.blobs
      paid == [bl EXCEPT ![i].energy = @ - REPRO_ENERGY_COST,
                         ![i].last_repro_tick = tick,
                         ![m].last_repro_tick = tick]
      offspring == Blob(c.next_blob_id,
                        GridAlign((bl[i].x + bl[m].x) \div 2),
                        GridAlign((bl[i].y + bl[m].y) \div 2),
                        OffspringWander(bl[i].wander_propensity, bl[m].wander_propensity, mut),
                        OFFSPRING_ENERGY, 0, 0, tick)
  IN  [c EXCEPT !.blobs = add_blob(paid, offspring),
                !.next_blob_id = @ + 1]

\* reproduce_with giving the offspring an id without advancing next_blob_id
reproduce_with_same_id(c, i, m, tick, mut) ==
  LET bl == c.blobs
      paid == [bl EXCEPT ![i].energy = @ - REPRO_ENERGY_COST,
                         ![m].energy = @ - REPRO_ENERGY_COST,
                         ![i].last_repro_tick = tick,
                         ![m].last_repro_tick = tick]
      offspring == Blob(c.next_blob_id,
                        GridAlign((bl[i].x + bl[m].x) \div 2),
                        GridAlign((bl[i].y + bl[m].y) \div 2),
                        OffspringWander(bl[i].wander_propensity, bl[m].wander_propensity, mut),
                        OFFSPRING_ENERGY, 0, 0, tick)
  IN  [c EXCEPT !.blobs = add_blob(paid, offspring)]

\* reproduce_with placing the offspring at the midpoint without the grid snap
reproduce_with_unsnapped(c, i, m, tick, mut) ==
  LET bl == c.blobs
      paid == [bl EXCEPT ![i].energy = @ - REPRO_ENERGY_COST,
                         ![m].energy = @ - REPRO_ENERGY_COST,
                         ![i].last_repro_tick = tick,
                         ![m].last_repro_tick = tick]
      offspring == Blob(c.next_blob_id,
                        (bl[i].x + bl[m].x) \div 2,
                        (bl[i].y + bl[m].y) \div 2,
                        OffspringWander(bl[i].wander_propensity, bl[m].wander_propensity, mut),
                        OFFSPRING_ENERGY, 0, 0, tick)
  IN  [c EXCEPT !.blobs = add_blob(paid, offspring),
                !.next_blob_id = @ + 1]

\* Blob.reproduce_with, on the coordinator state c
reproduce_with(c, i, m, tick, mut) ==
  LET bl == c.blobs
      paid == [bl EXCEPT ![i].energy = @ - REPRO_ENERGY_COST,
                         ![m].energy = @ - REPRO_ENERGY_COST,
                         ![i].last_repro_tick = tick,
                         ![m].last_repro_tick = tick]
      offspring == Blob(c.next_blob_id,
                        GridAlign((bl[i].x + bl[m].x) \div 2),
                        GridAlign((bl[i].y + bl[m].y) \div 2),
                        OffspringWander(bl[i].wander_propensity, bl[m].wander_propensity, mut),
                        OFFSPRING_ENERGY, 0, 0, tick)
  IN  [c EXCEPT !.blobs = add_blob(paid, offspring),
                !.next_blob_id = @ + 1]

\* blob.py:108-112, the reproduction block of update.  can_repro and mate
\* (history) keep what self.can_reproduce returned and whom reproduce_with
\* was called with.
ReproductionStep(c, i, tick, mut) ==
  IF can_reproduce(c.blobs[i], tick, Len(c.blobs))
  THEN LET mate == find_mate(c.blobs, i)
       IN  IF mate /= 0 /\ can_reproduce(c.blobs[mate], tick, Len(c.blobs))
           THEN [reproduce_with(c, i, mate, tick, mut)
                   EXCEPT !.can_repro = TRUE, !.mate = mate]
           ELSE [c EXCEPT !.can_repro = TRUE]
  ELSE c

(* ------------------------------ needs and death ------------------------ *)
\* blob.py:117-124: hunger += HUNGER_RATE / TICK_RATE_HZ, thirst likewise,
\* energy -= ENERGY_DECAY / TICK_RATE_HZ, then each becomes max(0, int(.))
UpdateNeeds(b) ==
  [b EXCEPT
     !.hunger = Max(0, TruncDiv(@ * TICK_RATE_HZ + HUNGER_RATE, TICK_RATE_HZ)),
     !.thirst = Max(0, TruncDiv(@ * TICK_RATE_HZ + THIRST_RATE, TICK_RATE_HZ)),
     !.energy = Max(0, TruncDiv(@ * (ENERGY_DECAY_DEN * TICK_RATE_HZ) - ENERGY_DECAY_NUM,
                                ENERGY_DECAY_DEN * TICK_RATE_HZ))]

\* the death condition with > in place of >=
NeedsFatal_above(b) == b.hunger > BLOB_MAX_NEEDS \/ b.thirst > BLOB_MAX_NEEDS

\* blob.py:128 the condition of death
NeedsFatal(b) == b.hunger >= BLOB_MAX_NEEDS \/ b.thirst >= BLOB_MAX_NEEDS

(* ------------------------------ consumption ---------------------------- *)
\* blob.py:134-149.  The first statement of a branch lowers the need; the
\* second reads config.ENERGY_GAIN_ON_CONSUME and raises AttributeError when
\* the configuration does not define it, leaving the rest of update undone.
ConsumeStep(c, i, has_gain) ==
  LET b == c.blobs[i]
      current_tile_type == get_tile(c.tiles, b.x, b.y)
  IN  IF current_tile_type = FOOD
      THEN LET b1 == [b EXCEPT !.hunger = Max(0, @ - FOOD_FILL)]
           IN  IF ~has_gain
               THEN [c EXCEPT !.blobs[i] = b1, !.raised = TRUE]
               ELSE [c EXCEPT
                       !.blobs[i] = [b1 EXCEPT
                           !.energy = Min(BLOB_MAX_NEEDS, @ + ENERGY_GAIN_ON_CONSUME),
                           !.last_food_pos = << b.x, b.y >>,
                           !.food_mem_age = 0],
                       !.tiles = consume_tile(@, b.x, b.y),
                       !.consumed_concept = "food"]
      ELSE IF current_tile_type = WATER
      THEN LET b1 == [b EXCEPT !.thirst = Max(0, @ - WATER_FILL)]
           IN  IF ~has_gain
               THEN [c EXCEPT !.blobs[i] = b1, !.raised = TRUE]
               ELSE [c EXCEPT
                       !.blobs[i] = [b1 EXCEPT
                           !.energy = Min(BLOB_MAX_NEEDS, @ + ENERGY_GAIN_ON_CONSUME),
                           !.last_water_pos = << b.x, b.y >>,
                           !.water_mem_age = 0],
                       !.tiles = consume_tile(@, b.x, b.y),
                       !.consumed_concept = "water"]
      ELSE c

(* ------------------------------ broadcast ------------------------------ *)
\* BroadcastWith emitting although no symbol was obtained
BroadcastWith_any_symbol(c, i, concept, tick, chirp_id) ==
  LET b == c.blobs[i]
      chirp_event_count == Cardinality({k \in 1..Len(c.events) : c.events[k][1] = "chirp"})
  IN  IF chirp_event_count < c.volume
      THEN [c EXCEPT
              !.events = Append(@, << "chirp", b.id, chirp_id, b.x, b.y >>),
              !.blobs[i] = [b EXCEPT !.last_chirp_time = tick,
                                     !.last_emit_tick = tick,
                                     !.last_emit_concept = concept]]
      ELSE c

\* BroadcastWith without the CHIRP_VOLUME check
BroadcastWith_unlimited(c, i, concept, tick, chirp_id) ==
  LET b == c.blobs[i]
  IN  IF chirp_id = NoChirp THEN c
      ELSE [c EXCEPT
              !.events = Append(@, << "chirp", b.id, chirp_id, b.x, b.y >>),
              !.blobs[i] = [b EXCEPT !.last_chirp_time = tick,
                                     !.last_emit_tick = tick,
                                     !.last_emit_concept = concept]]

\* Blob._allocate_new_chirp_id followed by the rest of _broadcast_discovery
BroadcastWith(c, i, concept, tick, chirp_id) ==
  LET b == c.blobs[i]
      chirp_event_count == Cardinality({k \in 1..Len(c.events) : c.events[k][1] = "chirp"})
  IN  IF chirp_id = NoChirp THEN c
      ELSE IF chirp_event_count < c.volume
      THEN [c EXCEPT
              !.events = Append(@, << "chirp", b.id, chirp_id, b.x, b.y >>),
              !.blobs[i] = [b EXCEPT !.last_chirp_time = tick,
                                     !.last_emit_tick = tick,
                                     !.last_emit_concept = concept]]
      ELSE c

\* _broadcast_discovery without the cooldown check
_broadcast_discovery_no_cooldown(c, i, concept, tick) ==
  LET b == c.blobs[i]
      dominant == _get_dominant_chirp_for_concept(b, concept)
  IN  IF dominant /= NoChirp
      THEN BroadcastWith(c, i, concept, tick, dominant)
      ELSE LET got == get_new_chirp_id(c.chirp_pos, c.used_chirp_ids)
               c1 == [c EXCEPT !.chirp_pos = got.pos, !.used_chirp_ids = got.used]
               c2 == IF got.id = NoChirp THEN c1
                     ELSE [c1 EXCEPT !.blobs[i].lexicon = LexSet(@, got.id, concept, W_ONE \div 5)]
           IN  BroadcastWith(c2, i, concept, tick, got.id)

\* Blob._broadcast_discovery; the times are compared in ticks:
\* tick / TICK_RATE_HZ - last_chirp_time < _chirp_cooldown
_broadcast_discovery(c, i, concept, tick) ==
  LET b == c.blobs[i]
      dominant == _get_dominant_chirp_for_concept(b, concept)
  IN  IF (tick - b.last_chirp_time) * CHIRP_COOLDOWN_DEN < CHIRP_COOLDOWN_NUM * TICK_RATE_HZ
      THEN c
      ELSE IF dominant /= NoChirp
      THEN BroadcastWith(c, i, concept, tick, dominant)
      ELSE LET got == get_new_chirp_id(c.chirp_pos, c.used_chirp_ids)
               c1 == [c EXCEPT !.chirp_pos = got.pos, !.used_chirp_ids = got.used]
               c2 == IF got.id = NoChirp THEN c1
                     ELSE [c1 EXCEPT !.blobs[i].lexicon = LexSet(@, got.id, concept, W_ONE \div 5)]
           IN  BroadcastWith(c2, i, concept, tick, got.id)

(* ------------------------------ movement ------------------------------- *)
\* Blob._wander: rnd is "keep" when random.random() >= wander_propensity, else
\* the pair (vx, vy) drawn from {-GRID_STEP, 0, GRID_STEP}
WanderChoices(b, may_roll) ==
  (IF b.wander_propensity < WP_ONE THEN {<< "keep", 0, 0 >>} ELSE {})
  \cup (IF b.wander_propensity > 0 /\ may_roll
        THEN {<< "roll", vx, vy >> : vx \in {-GRID_STEP, 0, GRID_STEP},
                                     vy \in {-GRID_STEP, 0, GRID_STEP}}
        ELSE {})

_wander(b, rnd) ==
  IF rnd[1] = "roll" THEN [b EXCEPT !.vx = rnd[2], !.vy = rnd[3]] ELSE b

\* blob.py:157-174: the velocity for this tick
\* the velocity choice of update seeking at SEEK_SPEED whatever the distance
SetVelocity_full_speed(b, rnd) ==
  LET target == _decide_target(b)
  IN  IF target /= << >>
      THEN [b EXCEPT !.vx = IF target[1] - b.x >= 0 THEN SEEK_SPEED ELSE -SEEK_SPEED,
                     !.vy = IF target[2] - b.y >= 0 THEN SEEK_SPEED ELSE -SEEK_SPEED]
      ELSE _wander(b, rnd)

SetVelocity(b, rnd) ==
  LET target == _decide_target(b)
  IN  IF target /= << >>
      THEN LET delta_x == target[1] - b.x
               delta_y == target[2] - b.y
               vx0 == _clamp(delta_x, -SEEK_SPEED, SEEK_SPEED)
               vy0 == _clamp(delta_y, -SEEK_SPEED, SEEK_SPEED)
           IN  [b EXCEPT !.vx = IF Abs(delta_x) <= SEEK_SPEED THEN delta_x ELSE vx0,
                         !.vy = IF Abs(delta_y) <= SEEK_SPEED THEN delta_y ELSE vy0]
      ELSE _wander(b, rnd)

\* whether update reaches _wander and random.random() < wander_propensity there
Rolls(b, rnd) == _decide_target(b) = << >> /\ rnd[1] = "roll"

\* ApplyMovement without the clamp to the world
ApplyMovement_unclamped(b, width, height) ==
  [b EXCEPT !.x = GridAlign(b.x + b.vx),
            !.y = GridAlign(b.y + b.vy)]

\* blob.py:177-187: apply the velocity, clamp to the world, align to the grid
ApplyMovement(b, width, height) ==
  [b EXCEPT !.x = GridAlign(_clamp(b.x + b.vx, 0, width - BLOB_SIZE)),
            !.y = GridAlign(_clamp(b.y + b.vy, 0, height - BLOB_SIZE))]

MoveStep(c, i, rnd) ==
  [c EXCEPT !.blobs[i] = ApplyMovement(SetVelocity(@, rnd), world.width, world.height),
            !.rolled = Rolls(c.blobs[i], rnd),
            !.target = _decide_target(c.blobs[i])]

(* ------------------------------ Blob.update ---------------------------- *)
\* The coordinator state update works on: the window's fields and the world's
\* tiles, with update's local consumed_concept, whether an exception was
\* raised, and (history) the chirp events its hearing loop iterated, what
\* can_reproduce returned, the mate, the blob as it left the needs step, and
\* what _decide_target returned.
Ctx(bl, t, ev, pos, used, nid) ==
  [ blobs |-> bl, tiles |-> t, events |-> ev, chirp_pos |-> pos,
    used_chirp_ids |-> used, next_blob_id |-> nid,
    consumed_concept |-> "none", raised |-> FALSE, heard |-> << >>, rolled |-> FALSE,
    can_repro |-> FALSE, mate |-> 0, mid |-> << >>, target |-> << >>,
    volume |-> config_chirp_volume ]

\* blob.py:151-154
AfterConsume(c, i, tick) ==
  IF c.consumed_concept /= "none"
  THEN _broadcast_discovery(
         [c EXCEPT !.blobs[i] = _apply_positive_reinforcement(@, c.consumed_concept)],
         i, c.consumed_concept, tick)
  ELSE c

\* the steps before the reproduction block with _process_reinforcement_queue
\* left out, so that consumption finds the entries that have expired
SocialAndMemory_expiry_skipped(c, i, dt, tick) ==
  LET b1 == _process_heard_chirps(c.blobs[i], c.events, tick)
      b3 == _decay_lexicon(b1, dt)
      b4 == _decay_mem(b3, dt, c.tiles)
  IN  [c EXCEPT !.blobs[i] = b4,
                !.heard = SelectSeq(c.events, LAMBDA e : e[1] = "chirp")]

\* blob.py:95-105: hearing, expiry, lexicon decay, memory decay
SocialAndMemory(c, i, dt, tick) ==
  LET b1 == _process_heard_chirps(c.blobs[i], c.events, tick)
      b2 == _process_reinforcement_queue(b1, tick)
      b3 == _decay_lexicon(b2, dt)
      b4 == _decay_mem(b3, dt, c.tiles)
  IN  [c EXCEPT !.blobs[i] = b4,
                !.heard = SelectSeq(c.events, LAMBDA e : e[1] = "chirp")]

\* blob.py:126-131: the death check; TRUE when update returns here
DeathCheck(b) == NeedsFatal(b)

\* blob.py:133-187: what update does once the blob has survived the check
LiveSteps(c, i, tick, rnd, has_gain) ==
  LET c8 == ConsumeStep(c, i, has_gain)
  IN  IF c8.raised THEN c8
      ELSE MoveStep(AfterConsume(c8, i, tick), i, rnd)

\* update raising the needs and decaying the energy before the reproduction
\* block
update_needs_first(c, i, dt, tick, rnd, mut, has_gain) ==
  IF ~c.blobs[i].alive THEN c
  ELSE LET c4 == SocialAndMemory(c, i, dt, tick)
           c5 == [c4 EXCEPT !.blobs[i] = UpdateNeeds(@)]
           c5r == ReproductionStep(c5, i, tick, mut)
           c6 == [c5r EXCEPT !.mid = c5r.blobs[i]]
       IN  IF DeathCheck(c6.blobs[i])
           THEN [c6 EXCEPT !.blobs[i].alive = FALSE]
           ELSE LiveSteps(c6, i, tick, rnd, has_gain)

\* update without the early return of a dead blob
update_unguarded(c, i, dt, tick, rnd, mut, has_gain) ==
  LET c4 == SocialAndMemory(c, i, dt, tick)
      c5 == ReproductionStep(c4, i, tick, mut)
      c6 == [c5 EXCEPT !.blobs[i] = UpdateNeeds(@), !.mid = UpdateNeeds(c5.blobs[i])]
  IN  IF DeathCheck(c6.blobs[i])
      THEN [c6 EXCEPT !.blobs[i].alive = FALSE]
      ELSE LiveSteps(c6, i, tick, rnd, has_gain)

\* Blob.update(world, dt, current_tick, events) of blobs[i]
update(c, i, dt, tick, rnd, mut, has_gain) ==
  IF ~c.blobs[i].alive THEN c
  ELSE LET c4 == SocialAndMemory(c, i, dt, tick)
           c5 == ReproductionStep(c4, i, tick, mut)
           c6 == [c5 EXCEPT !.blobs[i] = UpdateNeeds(@), !.mid = UpdateNeeds(c5.blobs[i])]
       IN  IF DeathCheck(c6.blobs[i])
           THEN [c6 EXCEPT !.blobs[i].alive = FALSE]
           ELSE LiveSteps(c6, i, tick, rnd, has_gain)

(* ------------------------------ hive_mind ------------------------------ *)
\* hive_mind.update_convergence: the dominant sets of a blob
DominantSet(b, concept) ==
  {b.lexicon[k].id : k \in {j \in 1..Len(b.lexicon) :
       concept \in DOMAIN b.lexicon[j].w
       /\ b.lexicon[j].w[concept] >= (W_ONE \div 10) * 6}}

\* calculate_jaccard_similarity with two empty sets taken as unlike
calculate_jaccard_similarity_empty_unlike(s1, s2) ==
  IF Cardinality(s1 \cup s2) = 0 THEN 0
  ELSE (Cardinality(s1 \cap s2) * W_ONE) \div Cardinality(s1 \cup s2)

\* calculate_jaccard_similarity, in units of 1/W_ONE
calculate_jaccard_similarity(s1, s2) ==
  IF Cardinality(s1 \cup s2) = 0 THEN W_ONE
  ELSE (Cardinality(s1 \cap s2) * W_ONE) \div Cardinality(s1 \cup s2)

\* the sum of the pairwise similarities of one concept over the pairs ps
RECURSIVE JaccardSum(_, _, _)
JaccardSum(bl, ps, concept) ==
  IF ps = {} THEN 0
  ELSE LET p == CHOOSE q \in ps : TRUE
       IN  calculate_jaccard_similarity(DominantSet(bl[p[1]], concept),
                                        DominantSet(bl[p[2]], concept))
           + JaccardSum(bl, ps \ {p}, concept)

\* update_convergence computing on every tick
update_convergence_every_tick(bl, tick, interval) ==
  IF bl = << >> THEN -1
  ELSE LET n == Len(bl)
           pairs == {p \in (1..n) \X (1..n) : p[1] < p[2]}
           avg_food == IF n < 2 THEN W_ONE
                       ELSE JaccardSum(bl, pairs, "food") \div Cardinality(pairs)
           avg_water == IF n < 2 THEN W_ONE
                        ELSE JaccardSum(bl, pairs, "water") \div Cardinality(pairs)
       IN  (avg_food + avg_water) \div 2

\* update_convergence(blobs, current_tick, interval): -1 for None, else the
\* overall average in units of 1/W_ONE
update_convergence(bl, tick, interval) ==
  IF bl = << >> \/ tick % interval /= 0 THEN -1
  ELSE LET n == Len(bl)
           pairs == {p \in (1..n) \X (1..n) : p[1] < p[2]}
           avg_food == IF n < 2 THEN W_ONE
                       ELSE JaccardSum(bl, pairs, "food") \div Cardinality(pairs)
           avg_water == IF n < 2 THEN W_ONE
                        ELSE JaccardSum(bl, pairs, "water") \div Cardinality(pairs)
       IN  (avg_food + avg_water) \div 2

(* ------------------------------ initial states ------------------------- *)
\* Blobs as the constructor and the tests set them up: the need and energy
\* levels on both sides of every threshold update reads.
Profile(h, t, e, wp, age, vx) ==
  [hunger |-> h, thirst |-> t, energy |-> e, wp |-> wp, age |-> age, vx |-> vx]

Fertile == Profile(0, 0, 200, 0, 0, 0)
Hungry == Profile(HUNGER_SEEK, 0, 1, 0, 0, 0)
Thirsty == Profile(50, THIRST_SEEK + 50, 0, 0, 0, 0)
NearStarving == Profile(BLOB_MAX_NEEDS - 1, 50, DEFAULT_ENERGY, 0, 0, 0)
Starving == Profile(BLOB_MAX_NEEDS, 0, DEFAULT_ENERGY, 0, 0, GRID_STEP)
Dehydrated == Profile(0, BLOB_MAX_NEEDS, DEFAULT_ENERGY, 0, 0, GRID_STEP)
Old == Profile(0, 0, DEFAULT_ENERGY, 0, MAX_LIFESPAN_TICKS, 0)
Wanderer == Profile(0, 0, DEFAULT_ENERGY, WANDER_RATE, 0, 0)

\* the profiles whose blobs survive an update: they hear, eat, chirp, mate
SocialProfiles == { Fertile, Hungry, Thirsty }
StaticProfiles == SocialProfiles \cup { NearStarving, Starving, Dehydrated, Old }

MakeBlob(id, x, p) ==
  [Blob(id, x, 0, p.wp, p.energy, p.hunger, p.thirst, -REPRO_COOLDOWN_TICKS)
     EXCEPT !.age_ticks = p.age, !.vx = p.vx]

\* a blob the caller has marked dead (test_dead_blob_does_not_update)
DeadBlob(id, x, p) == [MakeBlob(id, x, p) EXCEPT !.alive = FALSE]

\* a blob that took part in a reproduction REPRO_COOLDOWN_TICKS - 1 ticks
\* before tick 0 (test_reproduction_cooldown sets last_repro_tick likewise)
RecentParent(id, x) ==
  [MakeBlob(id, x, Fertile) EXCEPT
     !.last_repro_tick = 1 - REPRO_COOLDOWN_TICKS,
     !.lexicon = << [id |-> ChirpIdPool[1], w |-> ("food" :> (W_ONE \div 10) * 6)] >>]

\* a thirsty blob walking right that has learned and listened: two symbols
\* tied for "food", one symbol for "water" (the three first ids of the pool),
\* and four heard chirps awaiting reinforcement (the tests of the lexicon set
\* lexicon and heard_chirps_pending_reinforcement likewise)
Scholar(id, x) ==
  [MakeBlob(id, x, Thirsty) EXCEPT
     !.vx = GRID_STEP,
     !.lexicon =
        << [id |-> ChirpIdPool[1], w |-> ("food" :> (W_ONE \div 10) * 6)],
           [id |-> ChirpIdPool[2], w |-> ("food" :> (W_ONE \div 10) * 6)],
           [id |-> ChirpIdPool[3], w |-> ("water" :> (W_ONE \div 10) * 9)] >>,
     !.heard_chirps_pending_reinforcement =
        << << ChirpIdPool[1], "food", REINFORCEMENT_DELAY_TICKS >>,
           << ChirpIdPool[3], "water", REINFORCEMENT_DELAY_TICKS >>,
           << ChirpIdPool[2], "food", REINFORCEMENT_DELAY_TICKS >>,
           << ChirpIdPool[1], "water", REINFORCEMENT_DELAY_TICKS + 1 >>,
           << ChirpIdPool[3], "water", REINFORCEMENT_DELAY_TICKS + 1 >> >>]

\* a blob at rest with weights at the pruning threshold and heard chirps whose
\* expiry falls on the first ticks of the run (test_negative_reinforcement_on_expiry
\* and test_lexicon_decay set the lexicon and the queue likewise)
Expectant(id, x) ==
  [MakeBlob(id, x, Hungry) EXCEPT
     !.lexicon =
        << [id |-> ChirpIdPool[1],
            w |-> ("food" :> (W_ONE \div 10) * 3) @@ ("water" :> W_ONE \div 1000)],
           [id |-> ChirpIdPool[2], w |-> ("food" :> (W_ONE \div 100) * 3)],
           [id |-> ChirpIdPool[3], w |-> ("water" :> W_ONE \div 1000)] >>,
     !.heard_chirps_pending_reinforcement =
        << << ChirpIdPool[1], "food", 1 >>,
           << ChirpIdPool[2], "food", 1 >>,
           << ChirpIdPool[1], "food", 2 >>,
           << ChirpIdPool[3], "food", 2 >>,
           << ChirpIdPool[1], "water", 3 >>,
           << ChirpIdPool[1], "food", 1 >> >>]

\* a hungry blob that drew the last but one id of the pool for "food" at a
\* broadcast half a second ago, the weight being the 0.2 seed after the decay
\* of thirty ticks
Veteran(id, x) ==
  [MakeBlob(id, x, Hungry) EXCEPT
     !.lexicon = << [id |-> ChirpIdPool[Len(ChirpIdPool) - 1],
                     w |-> ("food" :> (W_ONE \div 1000) * 199)] >>]

\* a blob two steps right of the origin that remembers food at the origin and
\* water one step right of it (the tests of seeking and of memory decay set
\* last_food_pos, last_water_pos and the ages likewise)
Rememberer(id, hunger, thirst, food_age, water_age) ==
  [MakeBlob(id, 2 * GRID_STEP, Profile(hunger, thirst, 0, 0, 0, 0)) EXCEPT
     !.last_food_pos = << 0, 0 >>, !.food_mem_age = food_age,
     !.last_water_pos = << GRID_STEP, 0 >>, !.water_mem_age = water_age]

\* at rest with a memory one tick short of MEMORY_SPAN_S and one at it; and
\* the needs on both sides of the seek thresholds and of each other
Rememberers ==
  { Rememberer(0, 0, 0, MemorySpanTicks - 1, 0),
    Rememberer(0, 0, 0, 0, MemorySpanTicks) }
  \cup { Rememberer(0, n[1], n[2], MemorySpanTicks - 1, 0) :
           n \in { << HUNGER_SEEK, THIRST_SEEK >>,
                   << HUNGER_SEEK, THIRST_SEEK + 1 >>,
                   << HUNGER_SEEK + 1, THIRST_SEEK >>,
                   << HUNGER_SEEK, 0 >>,
                   << 0, THIRST_SEEK >> } }

\* a blob without needs or energy that keeps its velocity
Drifter(id, x, vx) == MakeBlob(id, x, Profile(0, 0, 0, 0, 0, vx))

\* a blob without needs or energy that holds the lexicon lex
\* (test_convergence_metric.create_blob_with_lexicon)
Singer(id, x, lex) == [MakeBlob(id, x, Profile(0, 0, 0, 0, 0, 0)) EXCEPT !.lexicon = lex]

\* the lexicons of test_convergence_metric, weights in units of 1/W_ONE
Lex(food_id, food_w, water_id, water_w) ==
  << [id |-> food_id, w |-> ("food" :> (W_ONE \div 10) * food_w)],
     [id |-> water_id, w |-> ("water" :> (W_ONE \div 10) * water_w)] >>

\* the populations of test_convergence_metric: partial overlap, identical
\* lexicons, disjoint lexicons, weights under the threshold, one blob; and a
\* blob that starves, leaving no blob
Choirs ==
  { << Singer(0, 0, Lex(10, 8, 20, 7)), Singer(1, 0, Lex(10, 9, 21, 6)),
       Singer(2, 0, Lex(11, 7, 20, 8)) >>,
    << Singer(0, 0, Lex(10, 8, 20, 7)), Singer(1, 0, Lex(10, 8, 20, 7)),
       Singer(2, 0, Lex(10, 8, 20, 7)) >>,
    << Singer(0, 0, Lex(10, 8, 20, 7)), Singer(1, 0, Lex(11, 9, 21, 6)) >>,
    << Singer(0, 0, Lex(10, 8, 20, 5)), Singer(1, 0, Lex(10, 9, 20, 4)) >>,
    << Singer(0, 0, Lex(10, 8, 20, 7)) >>,
    << MakeBlob(0, 0, Starving) >> }

\* where the second blob of a pair starts: on the first, next to it, out of earshot
InitX2 == {0, GRID_STEP, CHIRP_RADIUS + GRID_STEP}

InitPopulations ==
  { << MakeBlob(0, 0, p) >> : p \in StaticProfiles \cup {Wanderer} }
  \cup { << MakeBlob(0, 0, p1), MakeBlob(1, x2, p2) >> :
           p1 \in SocialProfiles, p2 \in SocialProfiles, x2 \in InitX2 }
  \cup { << Scholar(0, 0) >> }
  \cup { << b >> : b \in Rememberers }

\* a blob that dies in its first update, or one already dead, listed before
\* a live one
DyingPopulations ==
  { << MakeBlob(0, 0, p1), MakeBlob(1, 0, Fertile) >> :
       p1 \in StaticProfiles \ SocialProfiles }
  \cup { << DeadBlob(0, 0, Starving), MakeBlob(1, 0, Fertile) >> }

\* World.tiles as spawn_resources or a test leaves it
InitTiles ==
  { << >>,
    (<< 0, 0 >> :> FOOD),
    (<< 0, 0 >> :> WATER),
    (<< 0, 0 >> :> FOOD) @@ (<< GRID_STEP, 0 >> :> WATER) }

\* how many ids of the pool were handed out before the run: those the
\* lexicons of the population hold
InitChirpPos(bl) ==
  Cardinality({k \in 1..Len(ChirpIdPool) :
                 \E j \in 1..Len(bl) : \E n \in 1..Len(bl[j].lexicon) :
                    bl[j].lexicon[n].id = ChirpIdPool[k]})

\* a population with the tiles and the configuration it starts in, the tick
\* counter and the number of ids the pool has handed out
Scenario(bl, t, gain, volume) ==
  [blobs |-> bl, tiles |-> t, gain |-> gain, volume |-> volume,
   tick |-> 0, pos |-> InitChirpPos(bl)]

\* three blobs of which the first dies in the first tick; three blobs each on
\* a resource, under a CHIRP_VOLUME of 2; a pair one of which is one tick short of its cooldown; a
\* listener at exactly CHIRP_RADIUS from a blob on a resource
SpecialScenarios ==
  { Scenario(<< MakeBlob(0, 0, Starving), MakeBlob(1, 0, Fertile), MakeBlob(2, 0, Fertile) >>,
             << >>, FALSE, CHIRP_VOLUME),
    Scenario(<< MakeBlob(0, 0, Thirsty), MakeBlob(1, GRID_STEP, Thirsty),
                MakeBlob(2, 2 * GRID_STEP, Thirsty) >>,
             (<< 0, 0 >> :> FOOD) @@ (<< GRID_STEP, 0 >> :> WATER)
                @@ (<< 2 * GRID_STEP, 0 >> :> FOOD),
             TRUE, 2),
    Scenario(<< RecentParent(0, 0), MakeBlob(1, 0, Fertile) >>, << >>, FALSE,
             CHIRP_VOLUME),
    Scenario(<< MakeBlob(0, 0, Thirsty), MakeBlob(1, CHIRP_RADIUS, Hungry) >>,
             (<< 0, 0 >> :> FOOD), TRUE, CHIRP_VOLUME),
    Scenario(<< Expectant(0, 0) >>, << >>, FALSE, CHIRP_VOLUME),
    Scenario(<< Expectant(0, 0) >>, (<< 0, 0 >> :> FOOD), TRUE, CHIRP_VOLUME),
    Scenario(<< Drifter(0, 1, -GRID_STEP),
                Drifter(1, WorldWidth - BLOB_SIZE - 1, GRID_STEP) >>,
             << >>, FALSE, CHIRP_VOLUME),
    [Scenario(<< MakeBlob(0, 0, Hungry) >>, << >>, FALSE, CHIRP_VOLUME)
       EXCEPT !.tick = RegenIntervalTicks - 1],
    Scenario(<< Rememberer(0, FOOD_FILL + HUNGER_SEEK + 30, 0, 0, 0) >>,
             (<< 0, 0 >> :> FOOD), TRUE, CHIRP_VOLUME),
    Scenario(<< MakeBlob(0, 0, Hungry), MakeBlob(1, 0, Hungry),
                Rememberer(2, HUNGER_SEEK, 0, 0, 0) >>,
             (<< 0, 0 >> :> FOOD), TRUE, CHIRP_VOLUME) }
  \cup { [Scenario(<< MakeBlob(0, 0, Thirsty), MakeBlob(1, GRID_STEP, Thirsty) >>,
                    (<< 0, 0 >> :> FOOD) @@ (<< GRID_STEP, 0 >> :> WATER),
                    TRUE, CHIRP_VOLUME)
            EXCEPT !.pos = Len(ChirpIdPool) - 1],
         [Scenario(<< Veteran(0, 0) >>, (<< 0, 0 >> :> FOOD), TRUE, CHIRP_VOLUME)
            EXCEPT !.pos = Len(ChirpIdPool) - 1] }
  \cup { [Scenario(bl, << >>, FALSE, CHIRP_VOLUME)
            EXCEPT !.tick = CONVERGENCE_INTERVAL - 2] : bl \in Choirs }
  \cup { [Scenario(<< Singer(0, 0, Lex(10, 8, 20, 7)) >>, << >>, FALSE, CHIRP_VOLUME)
            EXCEPT !.tick = 3 * CONVERGENCE_INTERVAL - 1] }

\* a blob find_mate accepts
MayMate(b) ==
  /\ b.alive
  /\ b.hunger < REPRO_HUNGER_THRESH
  /\ b.thirst < REPRO_THIRST_THRESH
  /\ b.energy >= REPRO_ENERGY_THRESH

\* Every population on every set of tiles under both configurations, less
\* the doubles: without a tile the configuration makes no difference, and a
\* pair of fertile blobs, whose offspring wanders, starts on bare ground
\* (what a fertile blob does on a tile the single one shows).
GenericScenarios ==
  { Scenario(bl, << >>, FALSE, CHIRP_VOLUME) : bl \in DyingPopulations }
  \cup
  { s \in { Scenario(bl, t, gain, CHIRP_VOLUME) :
              bl \in InitPopulations, t \in InitTiles, gain \in BOOLEAN } :
      /\ DOMAIN s.tiles = {} => ~s.gain
      /\ (Len(s.blobs) = 2 /\ \A k \in 1..2 : MayMate(s.blobs[k]))
            => DOMAIN s.tiles = {} }

InitScenarios == GenericScenarios \cup SpecialScenarios

\* what on_update is called with: one tick of simulated time
DtSet == {1}
\* random.uniform(-0.05, 0.05): the mutation factor, in percent
MutationFactors == {95, 105}

(* ------------------------------ history -------------------------------- *)
Pre == [ blobs |-> blobs, tiles |-> tiles, events |-> events,
         chirp_pos |-> chirp_pos, used_chirp_ids |-> used_chirp_ids,
         next_blob_id |-> next_blob_id, current_tick |-> current_tick,
         world |-> world ]

\* what a step that is no update call leaves in the history
NoCall == [ raised |-> FALSE, can_repro |-> FALSE, mate |-> 0, mid |-> << >>,
            target |-> << >>, conv |-> -1, conv_tick |-> -1, at |-> << >> ]

\* op: the step taken; i: the list position it worked on (0: none); pre: the
\* state it started from; raised: whether it ended in an exception; and of an
\* update call: what can_reproduce returned, the position of the mate it
\* reproduced with (0: none), the blob as it left the needs step, the target
\* _decide_target returned (<< >>: none, or the movement step was not reached);
\* of a call of update_convergence: the tick it was given (-1: no such call)
\* and what it returned (-1: None); of a call of consume_tile or a draw of
\* _get_random_empty_coord: the coordinate
Last(op, i, o) ==
  [ op |-> op, i |-> i, pre |-> Pre, raised |-> o.raised,
    can_repro |-> o.can_repro, mate |-> o.mate, mid |-> o.mid,
    target |-> o.target, conv |-> o.conv, conv_tick |-> o.conv_tick,
    at |-> o.at ]

\* the events a step appended
NewEvents(before, after) == SubSeq(after, Len(before) + 1, Len(after))

(* ------------------------------ Init ----------------------------------- *)
Init ==
  /\ \E s \in InitScenarios :
        /\ blobs = s.blobs
        /\ tiles = s.tiles
        /\ config_has_gain = s.gain
        /\ config_chirp_volume = s.volume
        /\ current_tick = s.tick
        /\ chirp_pos = s.pos
  /\ config_max_blobs = MAX_BLOBS
  /\ events = << >>
  /\ ticks_run = 0
  /\ next_blob_id = Len(blobs)
  /\ used_chirp_ids = {ChirpIdPool[k] : k \in 1..chirp_pos}
  /\ convergence_log = << >>
  /\ pc = "idle"
  /\ idx = 0
  /\ delta_time = 1
  /\ ext_calls = 0
  /\ rolls = 0
  /\ heard_log = << >>
  /\ emit_log = << >>
  /\ world = IdleWorld(WorldWidth, WorldHeight)
  /\ last = [ op |-> "init", i |-> 0, raised |-> FALSE,
              can_repro |-> FALSE, mate |-> 0, mid |-> << >>, target |-> << >>,
              conv |-> -1, conv_tick |-> -1, at |-> << >>,
              pre |-> [ blobs |-> blobs, tiles |-> tiles, events |-> << >>,
                        chirp_pos |-> chirp_pos, used_chirp_ids |-> used_chirp_ids,
                        next_blob_id |-> Len(blobs), current_tick |-> current_tick,
                        world |-> world ] ]

(* ------------------------------ the result of an update call ----------- *)
\* the variables after Blob.update of blobs[i] returned or raised; pos is the
\* position of the loop (0 for a call from outside it)
Updated(i, pos, dt, tick, rnd, mut) ==
  LET c == update(Ctx(blobs, tiles, events, chirp_pos, used_chirp_ids, next_blob_id),
                  i, dt, tick, rnd, mut, config_has_gain)
      new == NewEvents(events, c.events)
  IN  /\ blobs' = c.blobs
      /\ tiles' = c.tiles
      /\ events' = c.events
      /\ chirp_pos' = c.chirp_pos
      /\ used_chirp_ids' = c.used_chirp_ids
      /\ next_blob_id' = c.next_blob_id
      /\ heard_log' = IF blobs[i].alive
                      THEN Append(heard_log, [tick |-> tick, pos |-> pos,
                                              id |-> blobs[i].id, evs |-> c.heard,
                                              b |-> blobs[i]])
                      ELSE heard_log
      /\ emit_log' = emit_log \o [k \in 1..Len(new) |->
                                    [tick |-> tick, pos |-> pos, ev |-> new[k]]]
      /\ rolls' = IF c.rolled THEN rolls + 1 ELSE rolls
      /\ pc' = IF c.raised THEN "raised" ELSE pc
      /\ last' = Last(IF pos = 0 THEN "direct" ELSE "update", i,
                      [NoCall EXCEPT !.raised = c.raised, !.can_repro = c.can_repro,
                                     !.mate = c.mate, !.mid = c.mid,
                                     !.target = c.target])

(* ------------------------------ GameWindow.on_update ------------------- *)
\* on_update without events.clear()
OnUpdateBegin_keep_events ==
  /\ pc = "idle"
  /\ ticks_run < MaxTick
  /\ ext_calls = 0
  /\ \E dt \in DtSet : delta_time' = dt
  /\ current_tick' = current_tick + 1
  /\ ticks_run' = ticks_run + 1
  /\ idx' = 1
  /\ pc' = "loop"
  /\ last' = Last("begin", 0, NoCall)
  /\ UNCHANGED << blobs, events, next_blob_id, chirp_pos, used_chirp_ids, convergence_log,
                  tiles, config_has_gain, config_chirp_volume, config_max_blobs, ext_calls, rolls, heard_log, emit_log, world >>

\* game_window.py:181-184: the tick counter, events.clear(), the loop begins.
\* A run is a number of ticks followed by the calls from outside the loop.
OnUpdateBegin ==
  /\ pc = "idle"
  /\ ticks_run < MaxTick
  /\ ext_calls = 0
  /\ \E dt \in DtSet : delta_time' = dt
  /\ current_tick' = current_tick + 1
  /\ ticks_run' = ticks_run + 1
  /\ events' = << >>
  /\ idx' = 1
  /\ pc' = "loop"
  /\ last' = Last("begin", 0, NoCall)
  /\ UNCHANGED << blobs, next_blob_id, chirp_pos, used_chirp_ids, convergence_log,
                  tiles, config_has_gain, config_chirp_volume, config_max_blobs, ext_calls, rolls, heard_log, emit_log, world >>

\* game_window.py:185-188: one iteration of `for blob in self.blobs` on a live blob
LoopUpdate ==
  /\ pc = "loop"
  /\ idx <= Len(blobs)
  /\ blobs[idx].alive
  /\ \E rnd \in WanderChoices(blobs[idx], rolls < MaxRolls), mut \in MutationFactors :
        Updated(idx, idx, delta_time, current_tick, rnd, mut)
  /\ idx' = idx + 1
  /\ UNCHANGED << current_tick, ticks_run, convergence_log, config_has_gain, config_chirp_volume, config_max_blobs, delta_time, ext_calls, world >>

\* game_window.py:185-186: one iteration on a blob that is not alive
LoopSkip ==
  /\ pc = "loop"
  /\ idx <= Len(blobs)
  /\ ~blobs[idx].alive
  /\ idx' = idx + 1
  /\ last' = Last("skip", idx, NoCall)
  /\ UNCHANGED << blobs, events, current_tick, ticks_run, next_blob_id, chirp_pos, used_chirp_ids,
                  convergence_log, tiles, config_has_gain, config_chirp_volume, config_max_blobs, pc, delta_time, ext_calls,
                  rolls, heard_log, emit_log, world >>

\* the end of on_update without the filter of the dead
OnUpdateEnd_unfiltered ==
  /\ pc = "loop"
  /\ idx > Len(blobs)
  /\ LET live == SelectSeq(blobs, LAMBDA b : b.alive)
         regen_due == RegenIntervalTicks > 0 /\ current_tick % RegenIntervalTicks = 0
         conv == update_convergence(live, current_tick, CONVERGENCE_INTERVAL)
     IN  /\ blobs' = blobs
         /\ pc' = IF regen_due THEN "raised" ELSE "idle"
         /\ convergence_log' = IF ~regen_due /\ conv /= -1
                               THEN Append(convergence_log, << current_tick, conv >>)
                               ELSE convergence_log
         /\ last' = Last("end", 0,
                         [NoCall EXCEPT !.raised = regen_due,
                                        !.conv = IF regen_due THEN -1 ELSE conv,
                                        !.conv_tick = IF regen_due THEN -1 ELSE current_tick])
  /\ UNCHANGED << events, current_tick, ticks_run, next_blob_id, chirp_pos, used_chirp_ids, tiles,
                  config_has_gain, config_chirp_volume, config_max_blobs, idx, delta_time, ext_calls, rolls, heard_log, emit_log, world >>

\* game_window.py:190-205: the dead are filtered out; on a regeneration tick
\* world.tick_regen() is called, a method World does not have (AttributeError);
\* then the convergence metric
OnUpdateEnd ==
  /\ pc = "loop"
  /\ idx > Len(blobs)
  /\ LET live == SelectSeq(blobs, LAMBDA b : b.alive)
         regen_due == RegenIntervalTicks > 0 /\ current_tick % RegenIntervalTicks = 0
         conv == update_convergence(live, current_tick, CONVERGENCE_INTERVAL)
     IN  /\ blobs' = live
         /\ pc' = IF regen_due THEN "raised" ELSE "idle"
         /\ convergence_log' = IF ~regen_due /\ conv /= -1
                               THEN Append(convergence_log, << current_tick, conv >>)
                               ELSE convergence_log
         /\ last' = Last("end", 0,
                         [NoCall EXCEPT !.raised = regen_due,
                                        !.conv = IF regen_due THEN -1 ELSE conv,
                                        !.conv_tick = IF regen_due THEN -1 ELSE current_tick])
  /\ UNCHANGED << events, current_tick, ticks_run, next_blob_id, chirp_pos, used_chirp_ids, tiles,
                  config_has_gain, config_chirp_volume, config_max_blobs, idx, delta_time, ext_calls, rolls, heard_log, emit_log, world >>

(* ------------------------------ calls from outside the loop ------------ *)
\* blob.update(world, dt, tick, events) called on a blob of the list, as the
\* tests do, while on_update is not running
DirectUpdate ==
  /\ pc = "idle"
  /\ world.op = "idle"
  /\ ext_calls < MaxExtCalls
  /\ \E i \in 1..Len(blobs) :
       \E rnd \in WanderChoices(blobs[i], rolls < MaxRolls),
          mut \in MutationFactors, dt \in DtSet :
          Updated(i, 0, dt, current_tick, rnd, mut)
  /\ ext_calls' = ext_calls + 1
  /\ UNCHANGED << current_tick, ticks_run, convergence_log, config_has_gain, config_chirp_volume, config_max_blobs, idx, delta_time, world >>

\* game_window.add_blob(Blob(id=get_next_blob_id(), ...)) while on_update is not running
AddBlobCall ==
  /\ pc = "idle"
  /\ ext_calls < MaxExtCalls
  /\ blobs' = add_blob(blobs, MakeBlob(next_blob_id, 0, Fertile))
  /\ next_blob_id' = next_blob_id + 1
  /\ ext_calls' = ext_calls + 1
  /\ last' = Last("add", 0, NoCall)
  /\ UNCHANGED << events, current_tick, ticks_run, chirp_pos, used_chirp_ids, convergence_log, tiles,
                  config_has_gain, config_chirp_volume, config_max_blobs, pc, idx, delta_time, rolls, heard_log, emit_log, world >>

\* hive_mind.update_convergence(blobs, tick, config.CONVERGENCE_INTERVAL)
\* called as the tests do, on the window as it was built, before anything
\* has run; the call changes nothing of the program
ConvergenceCall ==
  /\ pc = "idle"
  /\ ticks_run = 0
  /\ ext_calls = 0
  /\ last' = Last("convergence", 0,
                  [NoCall EXCEPT
                     !.conv = update_convergence(blobs, current_tick, CONVERGENCE_INTERVAL),
                     !.conv_tick = current_tick])
  /\ UNCHANGED << blobs, events, current_tick, ticks_run, next_blob_id, chirp_pos,
                  used_chirp_ids, convergence_log, tiles, config_has_gain,
                  config_chirp_volume, config_max_blobs, pc, idx, delta_time, ext_calls, rolls,
                  heard_log, emit_log, world >>

Next ==
  \/ OnUpdateBegin
  \/ LoopUpdate
  \/ LoopSkip
  \/ OnUpdateEnd
  \/ DirectUpdate
  \/ AddBlobCall
  \/ ConvergenceCall

Spec == Init /\ [][Next]_vars

(* ------------------------------ World on its own ----------------------- *)
\* a World of two cells with nothing on it and one thirsty blob in its
\* corner
InitWorld ==
  /\ blobs = << MakeBlob(0, 0, Thirsty) >>
  /\ current_tick = 0
  /\ tiles = << >>
  /\ config_has_gain \in BOOLEAN
  /\ config_chirp_volume = CHIRP_VOLUME
  /\ config_max_blobs = MAX_BLOBS
  /\ chirp_pos = 0
  /\ events = << >>
  /\ ticks_run = 0
  /\ next_blob_id = Len(blobs)
  /\ used_chirp_ids = {}
  /\ convergence_log = << >>
  /\ pc = "idle"
  /\ idx = 0
  /\ delta_time = 1
  /\ ext_calls = 0
  /\ rolls = 0
  /\ heard_log = << >>
  /\ emit_log = << >>
  /\ world = IdleWorld(PatchWidth, PatchHeight)
  /\ last = [ op |-> "init", i |-> 0, raised |-> FALSE,
              can_repro |-> FALSE, mate |-> 0, mid |-> << >>, target |-> << >>,
              conv |-> -1, conv_tick |-> -1, at |-> << >>,
              pre |-> [ blobs |-> blobs, tiles |-> tiles, events |-> << >>,
                        chirp_pos |-> chirp_pos, used_chirp_ids |-> used_chirp_ids,
                        next_blob_id |-> Len(blobs), current_tick |-> current_tick,
                        world |-> world ] ]

\* what the program leaves alone while the World is called
WorldOnly ==
  UNCHANGED << blobs, events, current_tick, ticks_run, next_blob_id, chirp_pos,
               used_chirp_ids, convergence_log, config_has_gain,
               config_chirp_volume, config_max_blobs, pc, idx, delta_time, ext_calls, rolls,
               heard_log, emit_log >>

\* World.spawn_resources(food_n, water_n) is called, as GameWindow.setup calls
\* it: before anything has run
SpawnCall ==
  /\ pc = "idle"
  /\ world.op = "idle"
  /\ ext_calls = 0
  /\ world.calls < MaxSpawnCalls
  /\ \E food_n \in 0..MaxSpawn, water_n \in 0..MaxSpawn :
       world' = [world EXCEPT !.op = "spawn", !.food_n = food_n,
                              !.water_n = water_n, !.food_left = food_n,
                              !.water_left = water_n, !.attempts = 0,
                              !.placed_food = 0, !.placed_water = 0,
                              !.before = tiles, !.calls = @ + 1]
  /\ UNCHANGED << tiles, last >>
  /\ WorldOnly

\* one iteration of the while loop of the _get_random_empty_coord that the
\* running iteration of spawn_resources called: either the attempts are used
\* up and None is returned, so nothing is written, or a coordinate is drawn
\* and, its cell being EMPTY, returned and written
SpawnAttempt ==
  /\ world.op = "spawn"
  /\ world.food_left + world.water_left > 0
  /\ LET food == world.food_left > 0
         kind == IF food THEN FOOD ELSE WATER
         done == [world EXCEPT !.attempts = 0,
                               !.food_left = IF food THEN @ - 1 ELSE @,
                               !.water_left = IF food THEN @ ELSE @ - 1]
     IN IF world.attempts >= max_attempts(world)
          THEN /\ world' = done
               /\ tiles' = tiles
          ELSE \E pick \in GridCells(world) :
                 LET coord == _get_random_empty_coord_step(tiles, pick)
                 IN IF coord # << >>
                      THEN /\ tiles' = set_tile(tiles, coord, kind)
                           /\ world' = [done EXCEPT
                                          !.placed_food = IF food THEN @ + 1 ELSE @,
                                          !.placed_water = IF food THEN @ ELSE @ + 1]
                      ELSE /\ tiles' = tiles
                           /\ world' = [world EXCEPT !.attempts = @ + 1]
  /\ UNCHANGED last
  /\ WorldOnly

\* spawn_resources returns, and what it held is gone
SpawnReturn ==
  /\ world.op = "spawn"
  /\ world.food_left + world.water_left = 0
  /\ world' = [IdleWorld(world.width, world.height) EXCEPT !.calls = world.calls]
  /\ UNCHANGED << tiles, last >>
  /\ WorldOnly

\* the coordinates World.consume_tile is called with: on the grid and off it,
\* inside the World and outside
ConsumeCoords == { << x, y >> : x \in {0, 1, 2, 3, 4}, y \in {0, 3} }

\* World.consume_tile(x, y)
ConsumeCall ==
  /\ pc = "idle"
  /\ world.op = "idle"
  /\ ext_calls < MaxExtCalls
  /\ \E at \in ConsumeCoords :
       /\ tiles' = consume_tile(tiles, at[1], at[2])
       /\ last' = Last("consume", 0, [NoCall EXCEPT !.at = at])
  /\ ext_calls' = ext_calls + 1
  /\ UNCHANGED << blobs, events, current_tick, ticks_run, next_blob_id, chirp_pos,
                  used_chirp_ids, convergence_log, config_has_gain,
                  config_chirp_volume, config_max_blobs, pc, idx, delta_time, rolls,
                  heard_log, emit_log, world >>

NextWorld ==
  \/ SpawnCall
  \/ SpawnAttempt
  \/ SpawnReturn
  \/ ConsumeCall
  \/ DirectUpdate

\* spawn_resources is one call: once begun, its loops run on
SpecWorld ==
  InitWorld /\ [][NextWorld]_vars /\ WF_vars(SpawnAttempt) /\ WF_vars(SpawnReturn)

(* ------------------------------ mate search below the cap -------------- *)
\* a blob at the reproduction thresholds: energy exactly REPRO_ENERGY_THRESH,
\* hunger and thirst one below theirs
Marginal(id, x) ==
  [MakeBlob(id, x, Fertile) EXCEPT
     !.energy = REPRO_ENERGY_THRESH,
     !.hunger = REPRO_HUNGER_THRESH - 1,
     !.thirst = REPRO_THIRST_THRESH - 1]

\* a fertile blob that reproduced at tick 0
NewParent(id, x) == [MakeBlob(id, x, Fertile) EXCEPT !.last_repro_tick = 0]

\* the populations of the reproduction tests: parents in reach of each other,
\* a pair at the reach exactly, a searcher whose first neighbour is on
\* cooldown or dead, a neighbour out of reach, and parents listed after a blob
\* that starves
MatePopulations ==
  { << Marginal(0, 0), MakeBlob(1, REPRO_NEARBY_RADIUS, Fertile) >>,
    << MakeBlob(0, 0, Fertile), NewParent(1, 0), MakeBlob(2, GRID_STEP, Fertile) >>,
    << MakeBlob(0, 0, Fertile), DeadBlob(1, 0, Fertile),
       MakeBlob(2, REPRO_NEARBY_RADIUS + GRID_STEP, Fertile) >>,
    << MakeBlob(0, 0, Starving), MakeBlob(1, 0, Fertile), MakeBlob(2, 0, Fertile) >> }

\* a window under config.py's MAX_BLOBS on bare ground
InitMate ==
  /\ blobs \in MatePopulations
  /\ current_tick = 0
  /\ tiles = << >>
  /\ config_has_gain = FALSE
  /\ config_chirp_volume = CHIRP_VOLUME
  /\ config_max_blobs = CONFIG_MAX_BLOBS
  /\ chirp_pos = 0
  /\ events = << >>
  /\ ticks_run = 0
  /\ next_blob_id = Len(blobs)
  /\ used_chirp_ids = {}
  /\ convergence_log = << >>
  /\ pc = "idle"
  /\ idx = 0
  /\ delta_time = 1
  /\ ext_calls = 0
  /\ rolls = 0
  /\ heard_log = << >>
  /\ emit_log = << >>
  /\ world = IdleWorld(WorldWidth, WorldHeight)
  /\ last = [ op |-> "init", i |-> 0, raised |-> FALSE,
              can_repro |-> FALSE, mate |-> 0, mid |-> << >>, target |-> << >>,
              conv |-> -1, conv_tick |-> -1, at |-> << >>,
              pre |-> [ blobs |-> blobs, tiles |-> tiles, events |-> << >>,
                        chirp_pos |-> chirp_pos, used_chirp_ids |-> used_chirp_ids,
                        next_blob_id |-> Len(blobs), current_tick |-> current_tick,
                        world |-> world ] ]

SpecMate == InitMate /\ [][Next]_vars

(* ------------------------------ update_convergence on its own ---------- *)
\* the lexicons of test_convergence_metric, the empty one and one of a
\* single symbol
TestLexicons ==
  { << >>,
    << [id |-> 10, w |-> ("food" :> (W_ONE \div 10) * 8)] >>,
    Lex(10, 8, 20, 7), Lex(10, 9, 21, 6), Lex(11, 7, 20, 8), Lex(10, 8, 20, 5) }

\* the lists of blobs the tests hand to update_convergence: none to
\* MAX_BLOBS blobs, each with one of the lexicons
TestPopulations ==
  UNION { { [k \in 1..n |-> Singer(k - 1, 0, f[k])] : f \in [1..n -> TestLexicons] } :
            n \in 0..MAX_BLOBS }

\* the ticks test_update_convergence_only_at_interval passes
TestTicks ==
  { 0, 1, CONVERGENCE_INTERVAL - 1, CONVERGENCE_INTERVAL,
    CONVERGENCE_INTERVAL + 1, 2 * CONVERGENCE_INTERVAL }

\* a window holding one of the lists at one of the ticks
InitConvergence ==
  /\ blobs \in TestPopulations
  /\ current_tick \in TestTicks
  /\ tiles = << >>
  /\ config_has_gain = FALSE
  /\ config_chirp_volume = CHIRP_VOLUME
  /\ config_max_blobs = MAX_BLOBS
  /\ chirp_pos = 0
  /\ events = << >>
  /\ ticks_run = 0
  /\ next_blob_id = Len(blobs)
  /\ used_chirp_ids = {}
  /\ convergence_log = << >>
  /\ pc = "idle"
  /\ idx = 0
  /\ delta_time = 1
  /\ ext_calls = 0
  /\ rolls = 0
  /\ heard_log = << >>
  /\ emit_log = << >>
  /\ world = IdleWorld(WorldWidth, WorldHeight)
  /\ last = [ op |-> "init", i |-> 0, raised |-> FALSE,
              can_repro |-> FALSE, mate |-> 0, mid |-> << >>, target |-> << >>,
              conv |-> -1, conv_tick |-> -1, at |-> << >>,
              pre |-> [ blobs |-> blobs, tiles |-> tiles, events |-> << >>,
                        chirp_pos |-> chirp_pos, used_chirp_ids |-> used_chirp_ids,
                        next_blob_id |-> Len(blobs), current_tick |-> current_tick,
                        world |-> world ] ]

NextConvergence == ConvergenceCall

SpecConvergence == InitConvergence /\ [][NextConvergence]_vars

(* ------------------------------ properties ----------------------------- *)
\* The last step was a call of Blob.update, from the loop or from outside it
UpdateCalled == last.op \in {"update", "direct"}
\* the blob that call worked on, before and after the call
PreBlob == last.pre.blobs[last.i]
PostBlob == blobs[last.i]

\* the chirps the loop of tick t appended at the positions before j, in order
EmittedBefore(t, j) ==
  LET s == SelectSeq(emit_log,
                     LAMBDA e : e.tick = t /\ e.pos > 0 /\ e.pos < j /\ e.ev[1] = "chirp")
  IN  [k \in 1..Len(s) |-> s[k].ev]

\* C1: within a tick the loop gives clear-then-append-while-iterating
\* visibility: the blob updated at position j iterates in its hearing step
\* exactly the chirps the blobs at positions i < j emitted in that tick, none
\* of a position k > j, and the queue is empty when the first blob is updated.
C1_ClearThenAppend ==
  /\ \A n \in 1..Len(heard_log) :
        heard_log[n].pos > 0
          => heard_log[n].evs = EmittedBefore(heard_log[n].tick, heard_log[n].pos)
  /\ (pc = "loop" /\ idx = 1 => events = << >>)

\* C1 witness: in one tick a blob at position 2 heard the chirp of position 1,
\* and position 1 did not hear the chirp position 2 emitted afterwards.
C1_HeardEarlierNotLater ==
  \E n \in 1..Len(heard_log), m \in 1..Len(emit_log), h \in 1..Len(heard_log) :
     /\ heard_log[n].pos = 2 /\ Len(heard_log[n].evs) = 1
     /\ heard_log[n].evs[1][2] /= heard_log[n].id
     /\ emit_log[m].tick = heard_log[n].tick /\ emit_log[m].pos = 2
     /\ heard_log[h].tick = heard_log[n].tick /\ heard_log[h].pos = 1
     /\ heard_log[h].evs = << >>

\* C2: a chirp emitted in tick t is heard in tick t+1 by a blob that was
\* updated before the emitter in tick t, when that blob is then alive, within
\* CHIRP_RADIUS of the chirp and has an active need.
C2_HeardOnNextTick ==
  \A m \in 1..Len(emit_log), n \in 1..Len(heard_log) :
     LET e == emit_log[m]
         h == heard_log[n]
     IN  ( /\ e.pos > 0 /\ h.pos > 0
           /\ h.tick = e.tick + 1
           /\ h.id /= e.ev[2]
           /\ \E n0 \in 1..Len(heard_log) :
                 /\ heard_log[n0].id = h.id
                 /\ heard_log[n0].tick = e.tick
                 /\ heard_log[n0].pos > 0 /\ heard_log[n0].pos < e.pos
           /\ WithinOpen(h.b.x - e.ev[4], h.b.y - e.ev[5], CHIRP_RADIUS)
           /\ ConceptGuess(h.b) /= "none" )
         => \E k \in 1..Len(h.evs) : h.evs[k] = e.ev

\* C3: the population list never holds more than MAX_BLOBS blobs; add_blob
\* appends while the population is below MAX_BLOBS and otherwise drops the
\* blob without an error.
C3_PopulationCap ==
  /\ Len(blobs) <= MAX_BLOBS
  /\ (last.op = "add" =>
        IF Len(last.pre.blobs) < MAX_BLOBS
        THEN /\ Len(blobs) = Len(last.pre.blobs) + 1
             /\ SubSeq(blobs, 1, Len(last.pre.blobs)) = last.pre.blobs
        ELSE blobs = last.pre.blobs /\ pc /= "raised")

\* C3 witness: add_blob was called on a population of MAX_BLOBS that holds an
\* offspring, and dropped the blob.
C3_DroppedAtCap ==
  /\ last.op = "add"
  /\ Len(last.pre.blobs) = MAX_BLOBS
  /\ \E k \in 1..Len(blobs) : blobs[k].last_repro_tick > 0
  /\ blobs = last.pre.blobs

\* C4: after an update hunger and thirst are >= 0; a blob whose hunger or
\* thirst is >= BLOB_MAX_NEEDS after the needs increment of an update is dead
\* when the update returns, with no tile consumed, no event appended and its
\* position unchanged; a blob alive after its update has both needs below
\* BLOB_MAX_NEEDS.
C4_NeedsFloorAndDeath ==
  (UpdateCalled /\ PreBlob.alive) =>
     LET inc == UpdateNeeds(PreBlob)
     IN  /\ PostBlob.hunger >= 0 /\ PostBlob.thirst >= 0
         /\ (inc.hunger >= BLOB_MAX_NEEDS \/ inc.thirst >= BLOB_MAX_NEEDS) =>
               /\ ~PostBlob.alive
               /\ ~last.raised
               /\ tiles = last.pre.tiles
               /\ events = last.pre.events
               /\ PostBlob.x = PreBlob.x /\ PostBlob.y = PreBlob.y
         /\ PostBlob.alive =>
               PostBlob.hunger < BLOB_MAX_NEEDS /\ PostBlob.thirst < BLOB_MAX_NEEDS

\* C4 witness: a moving blob at hunger BLOB_MAX_NEEDS was updated on a FOOD
\* tile and is dead.
C4_DiedOnFoodTile ==
  /\ last.op = "update"
  /\ PreBlob.alive
  /\ PreBlob.hunger >= BLOB_MAX_NEEDS
  /\ PreBlob.vx /= 0
  /\ get_tile(last.pre.tiles, PreBlob.x, PreBlob.y) = FOOD
  /\ ~PostBlob.alive

\* C5: an update of a live blob on an empty tile strictly increases hunger
\* and thirst and decreases energy until it is 0; a blob at hunger
\* BLOB_MAX_NEEDS - 1 on an empty tile is dead after one update.
C5_NeedsStrictlyIncrease ==
  ( /\ UpdateCalled /\ PreBlob.alive /\ ~last.raised
    /\ get_tile(last.pre.tiles, PreBlob.x, PreBlob.y) = EMPTY )
  => /\ PostBlob.hunger > PreBlob.hunger
     /\ PostBlob.thirst > PreBlob.thirst
     /\ (PreBlob.energy > 0 => PostBlob.energy < PreBlob.energy)
     /\ (PreBlob.energy = 0 => PostBlob.energy = 0)
     /\ (PreBlob.hunger = BLOB_MAX_NEEDS - 1 => ~PostBlob.alive)

\* C6: when a blob dies inside update the world holds a FOOD tile at its
\* grid-aligned position when the update returns, and consumption, broadcast
\* and movement were skipped.
C6_CarcassTile ==
  (UpdateCalled /\ PreBlob.alive /\ ~PostBlob.alive)
  => /\ get_tile(tiles, PostBlob.x, PostBlob.y) = FOOD
     /\ events = last.pre.events
     /\ PostBlob.x = PreBlob.x /\ PostBlob.y = PreBlob.y

\* C7: a live blob whose age_ticks is >= MAX_LIFESPAN_TICKS when update starts
\* is dead when it returns, and nothing but alive (and the FOOD tile) changed.
C7_OldAgeDeath ==
  (UpdateCalled /\ PreBlob.alive /\ PreBlob.age_ticks >= MAX_LIFESPAN_TICKS)
  => /\ ~PostBlob.alive
     /\ PostBlob = [PreBlob EXCEPT !.alive = FALSE]
     /\ events = last.pre.events
     /\ Len(blobs) = Len(last.pre.blobs)

\* C8: ticks_at_zero_energy counts the consecutive most recent updates that
\* ended with energy 0 (an update ending with energy > 0 resets it), and a
\* blob does not survive the update in which it reaches EXHAUSTION_GRACE_TICKS.
C8_ExhaustionCounter ==
  (UpdateCalled /\ PreBlob.alive /\ ~last.raised /\ PostBlob.alive)
  => /\ PostBlob.ticks_at_zero_energy =
          (IF PostBlob.energy = 0 THEN PreBlob.ticks_at_zero_energy + 1 ELSE 0)
     /\ PostBlob.ticks_at_zero_energy < EXHAUSTION_GRACE_TICKS

\* C9: update on a blob that is not alive changes nothing (the blob, the
\* tiles, the event queue, the population) and raises nothing; no step turns
\* a dead blob into a live one.
C9_DeadIsNoOp ==
  /\ (UpdateCalled /\ ~PreBlob.alive) =>
        /\ blobs = last.pre.blobs
        /\ tiles = last.pre.tiles
        /\ events = last.pre.events
        /\ chirp_pos = last.pre.chirp_pos
        /\ next_blob_id = last.pre.next_blob_id
        /\ ~last.raised
  /\ \A k \in 1..Len(last.pre.blobs) : \A j \in 1..Len(blobs) :
        (~last.pre.blobs[k].alive /\ blobs[j].id = last.pre.blobs[k].id)
          => ~blobs[j].alive

\* C9 witness: update was called on a dead blob with hunger at BLOB_MAX_NEEDS
\* standing where a living blob stands.
C9_DeadBlobUpdated ==
  /\ last.op = "direct"
  /\ ~PreBlob.alive
  /\ Len(blobs) > 1

\* C10: a live blob that passes the death check on a FOOD tile ends the update
\* with hunger = max(0, incremented hunger - FOOD_FILL), the tile EMPTY, the
\* food memory at that position with age 0 and thirst only incremented;
\* likewise for WATER; at most one tile is consumed by an update.
C10_ConsumptionEffects ==
  (UpdateCalled /\ PreBlob.alive /\ PostBlob.alive) =>
     LET inc == UpdateNeeds(PreBlob)
         t == get_tile(last.pre.tiles, PreBlob.x, PreBlob.y)
     IN  /\ t = FOOD =>
               /\ PostBlob.hunger = Max(0, inc.hunger - FOOD_FILL)
               /\ PostBlob.thirst = inc.thirst
               /\ get_tile(tiles, PreBlob.x, PreBlob.y) = EMPTY
               /\ PostBlob.last_food_pos = << PreBlob.x, PreBlob.y >>
               /\ PostBlob.food_mem_age = 0
         /\ t = WATER =>
               /\ PostBlob.thirst = Max(0, inc.thirst - WATER_FILL)
               /\ PostBlob.hunger = inc.hunger
               /\ get_tile(tiles, PreBlob.x, PreBlob.y) = EMPTY
               /\ PostBlob.last_water_pos = << PreBlob.x, PreBlob.y >>
               /\ PostBlob.water_mem_age = 0
         /\ Cardinality({p \in DOMAIN last.pre.tiles :
                            get_tile(tiles, p[1], p[2]) /= last.pre.tiles[p]}) <= 1

\* the tick an update call was made with
CallTick == last.pre.current_tick
\* the blob as it left the needs step of that call
MidBlob == last.mid
\* how many blobs of a list are alive
LiveCount(bl) == Cardinality({k \in 1..Len(bl) : bl[k].alive})
\* the conditions of can_reproduce on the blob itself, the cooldown apart
FitToReproduce(b) ==
  /\ b.alive
  /\ b.hunger < REPRO_HUNGER_THRESH
  /\ b.thirst < REPRO_THIRST_THRESH
  /\ b.energy >= REPRO_ENERGY_THRESH
\* the last update call ended in a reproduction
Reproduced == UpdateCalled /\ last.mate /= 0
\* the mate of that reproduction before and after the call, and the offspring
PreMate == last.pre.blobs[last.mate]
PostMate == blobs[last.mate]
Offspring == blobs[Len(blobs)]

\* C11: a consumption sets energy to min(ENERGY_MAX, energy +
\* ENERGY_GAIN_ON_CONSUME), and 0 <= energy <= ENERGY_MAX for every blob in
\* every reachable state.
C11_EnergyCap ==
  /\ \A k \in 1..Len(blobs) : 0 <= blobs[k].energy /\ blobs[k].energy <= ENERGY_MAX
  /\ ( /\ UpdateCalled /\ PreBlob.alive /\ PostBlob.alive /\ ~last.raised
       /\ get_tile(last.pre.tiles, PreBlob.x, PreBlob.y) /= EMPTY )
     => PostBlob.energy = Min(ENERGY_MAX, MidBlob.energy + ENERGY_GAIN_ON_CONSUME)

\* C12 as stated: can_reproduce is true exactly when the blob is alive, its
\* needs are under the thresholds, its energy is at the threshold or above,
\* the cooldown is over (equality included) and the number of blobs alive,
\* not counting those that died earlier in the tick, is below MAX_BLOBS.
C12_LivePopulation ==
  (UpdateCalled /\ PreBlob.alive) =>
     last.can_repro =
       ( /\ FitToReproduce(PreBlob)
         /\ CallTick - PreBlob.last_repro_tick >= REPRO_COOLDOWN_TICKS
         /\ LiveCount(last.pre.blobs) < MAX_BLOBS )

\* C12 amended: the same, with the population being the length of the
\* population list, which still holds the blobs that died earlier in the tick.
C12_ListPopulation ==
  (UpdateCalled /\ PreBlob.alive) =>
     last.can_repro =
       ( /\ FitToReproduce(PreBlob)
         /\ CallTick - PreBlob.last_repro_tick >= REPRO_COOLDOWN_TICKS
         /\ Len(last.pre.blobs) < MAX_BLOBS )

\* C12 witness: a fit blob past its cooldown was refused in the loop because
\* the list of MAX_BLOBS blobs still held one that had died in this tick.
C12_RefusedByDeadInList ==
  /\ last.op = "update"
  /\ FitToReproduce(PreBlob)
  /\ CallTick - PreBlob.last_repro_tick >= REPRO_COOLDOWN_TICKS
  /\ Len(last.pre.blobs) = MAX_BLOBS
  /\ LiveCount(last.pre.blobs) < MAX_BLOBS
  /\ ~last.can_repro

\* C13: a reproduction at tick t lowers the energy of initiator and mate by
\* REPRO_ENERGY_COST each and sets last_repro_tick of both to t; nothing else
\* of the mate changes, of the initiator nothing but what the other steps of
\* update change, and no other blob of the list changes.
C13_ParentsPay ==
  Reproduced =>
     /\ PostMate = [PreMate EXCEPT !.energy = @ - REPRO_ENERGY_COST,
                                   !.last_repro_tick = CallTick]
     /\ MidBlob.energy =
          UpdateNeeds([PreBlob EXCEPT !.energy = @ - REPRO_ENERGY_COST]).energy
     /\ MidBlob.last_repro_tick = CallTick
     /\ PostBlob.last_repro_tick = CallTick
     /\ MidBlob.id = PreBlob.id /\ MidBlob.alive = PreBlob.alive
     /\ MidBlob.x = PreBlob.x /\ MidBlob.y = PreBlob.y
     /\ MidBlob.vx = PreBlob.vx /\ MidBlob.vy = PreBlob.vy
     /\ MidBlob.wander_propensity = PreBlob.wander_propensity
     /\ MidBlob.hunger = UpdateNeeds(PreBlob).hunger
     /\ MidBlob.thirst = UpdateNeeds(PreBlob).thirst
     /\ \A k \in 1..Len(last.pre.blobs) :
           (k /= last.i /\ k /= last.mate) => blobs[k] = last.pre.blobs[k]

\* C13 witness: a blob reproduced in the loop with a mate standing elsewhere.
C13_ReproducedInLoop ==
  /\ Reproduced
  /\ last.op = "update"
  /\ PreMate.x /= PreBlob.x
  /\ PostMate.energy = PreMate.energy - REPRO_ENERGY_COST

\* C14: a reproduction at tick u involves only blobs whose last reproduction
\* is REPRO_COOLDOWN_TICKS or more before u, and leaves both parents and the
\* offspring with last_repro_tick = u; a blob inside its cooldown is refused,
\* and the cooldown is over at exactly REPRO_COOLDOWN_TICKS.
C14_CooldownBetweenReproductions ==
  /\ Reproduced =>
        /\ CallTick - PreBlob.last_repro_tick >= REPRO_COOLDOWN_TICKS
        /\ CallTick - PreMate.last_repro_tick >= REPRO_COOLDOWN_TICKS
        /\ PostBlob.last_repro_tick = CallTick
        /\ PostMate.last_repro_tick = CallTick
        /\ Offspring.last_repro_tick = CallTick
  /\ (UpdateCalled /\ PreBlob.alive) =>
        /\ (CallTick - PreBlob.last_repro_tick < REPRO_COOLDOWN_TICKS => ~last.can_repro)
        /\ ( ( /\ FitToReproduce(PreBlob)
               /\ Len(last.pre.blobs) < MAX_BLOBS
               /\ CallTick - PreBlob.last_repro_tick = REPRO_COOLDOWN_TICKS )
             => last.can_repro )
  /\ \A k \in 1..Len(blobs) : blobs[k].last_repro_tick <= current_tick

\* C14 witness: a blob that took part in a reproduction exactly
\* REPRO_COOLDOWN_TICKS ticks earlier, within this run's time line, reproduced.
C14_ReproducedAtCooldownEnd ==
  /\ Reproduced
  /\ PreBlob.last_repro_tick = 1 - REPRO_COOLDOWN_TICKS
  /\ CallTick - PreBlob.last_repro_tick = REPRO_COOLDOWN_TICKS

\* C15: the offspring of a reproduction at tick t has an id no other blob has
\* or had, stands at the per-axis integer midpoint of its parents snapped down
\* to the grid, has an empty lexicon, no memory, an empty pending queue and
\* last_repro_tick = t.
C15_Offspring ==
  /\ \A k \in 1..Len(blobs) :
        /\ blobs[k].id < next_blob_id
        /\ \A j \in 1..Len(blobs) : blobs[j].id = blobs[k].id => j = k
  /\ Reproduced =>
        /\ Len(blobs) = Len(last.pre.blobs) + 1
        /\ Offspring.id = last.pre.next_blob_id
        /\ \A k \in 1..Len(last.pre.blobs) : last.pre.blobs[k].id < Offspring.id
        /\ Offspring.x = (((PreBlob.x + PreMate.x) \div 2) \div GRID_STEP) * GRID_STEP
        /\ Offspring.y = (((PreBlob.y + PreMate.y) \div 2) \div GRID_STEP) * GRID_STEP
        /\ Offspring.lexicon = << >>
        /\ Offspring.last_food_pos = << >> /\ Offspring.last_water_pos = << >>
        /\ Offspring.heard_chirps_pending_reinforcement = << >>
        /\ Offspring.last_repro_tick = CallTick
        /\ Offspring.alive

\* C15 witness: parents whose midpoint is off the grid, or one of whom has a
\* lexicon, had an offspring.
C15_OffGridMidpoint ==
  /\ Reproduced
  /\ ((PreBlob.x + PreMate.x) \div 2) % GRID_STEP /= 0
  /\ Offspring.x % GRID_STEP = 0

\* the tile the blob of the last update call stood on when the call began
PreTile == get_tile(last.pre.tiles, PreBlob.x, PreBlob.y)
\* the last update call consumed a resource and went on past the consumption
Consumed ==
  /\ UpdateCalled /\ PreBlob.alive /\ PostBlob.alive /\ ~last.raised
  /\ PreTile /= EMPTY
\* the concept of the resource it consumed
ConsumedConcept == IF PreTile = FOOD THEN "food" ELSE "water"
\* the chirp cooldown of the consumer had not elapsed at the consumption
InChirpCooldown ==
  (CallTick - MidBlob.last_chirp_time) * CHIRP_COOLDOWN_DEN
     < CHIRP_COOLDOWN_NUM * TICK_RATE_HZ
\* how many chirp events a queue holds
ChirpCount(evs) == Cardinality({k \in 1..Len(evs) : evs[k][1] = "chirp"})

\* C16: two chirp events of the same emitter are at least chirp_cooldown
\* apart, and a consumption within chirp_cooldown of the consumer's last chirp
\* appends no event, allocates no symbol and leaves last_chirp_time,
\* last_emit_tick and last_emit_concept unchanged.
C16_ChirpCooldown ==
  /\ \A a \in 1..Len(emit_log) : \A b \in 1..Len(emit_log) :
        (a < b /\ emit_log[a].ev[2] = emit_log[b].ev[2]) =>
           (emit_log[b].tick - emit_log[a].tick) * CHIRP_COOLDOWN_DEN
              >= CHIRP_COOLDOWN_NUM * TICK_RATE_HZ
  /\ (Consumed /\ InChirpCooldown) =>
        /\ events = last.pre.events
        /\ chirp_pos = last.pre.chirp_pos
        /\ used_chirp_ids = last.pre.used_chirp_ids
        /\ \A k \in 1..Len(PostBlob.lexicon) :
              \E j \in 1..Len(MidBlob.lexicon) : MidBlob.lexicon[j].id = PostBlob.lexicon[k].id
        /\ PostBlob.last_chirp_time = PreBlob.last_chirp_time
        /\ PostBlob.last_emit_tick = PreBlob.last_emit_tick
        /\ PostBlob.last_emit_concept = PreBlob.last_emit_concept

\* C16 witness: a blob that chirped one tick earlier consumed a resource and
\* no event was appended.
C16_SuppressedByCooldown ==
  /\ Consumed /\ InChirpCooldown
  /\ \E a \in 1..Len(emit_log) :
        emit_log[a].ev[2] = PreBlob.id /\ emit_log[a].tick < CallTick
  /\ events = last.pre.events

\* C17: the event queue never holds more than CHIRP_VOLUME chirp events, and a
\* consumption with the cooldown elapsed while CHIRP_VOLUME chirps are queued
\* appends nothing.
C17_ChirpVolume ==
  /\ ChirpCount(events) <= config_chirp_volume
  /\ (Consumed /\ ~InChirpCooldown /\ ChirpCount(last.pre.events) >= config_chirp_volume) =>
        /\ events = last.pre.events
        /\ PostBlob.last_chirp_time = PreBlob.last_chirp_time

\* C17 witness: with CHIRP_VOLUME chirps queued in the tick, one more blob
\* consumed a resource, its cooldown elapsed, and appended nothing.
C17_SuppressedByVolume ==
  /\ Consumed /\ ~InChirpCooldown
  /\ last.op = "update"
  /\ ChirpCount(last.pre.events) = config_chirp_volume
  /\ events = last.pre.events

\* the weight of concept in the k-th entry of a lexicon
WeightAt(lex, k, concept) ==
  IF concept \in DOMAIN lex[k].w THEN lex[k].w[concept] ELSE 0
\* the entries holding the strictly greatest weight for concept, above 0.5
StrictDominants(lex, concept) ==
  {k \in 1..Len(lex) :
     /\ WeightAt(lex, k, concept) > W_ONE \div 2
     /\ \A j \in 1..Len(lex) : j /= k => WeightAt(lex, j, concept) < WeightAt(lex, k, concept)}
\* the first entry, in insertion order, among those holding the greatest
\* weight for concept, above 0.5
FirstDominants(lex, concept) ==
  {k \in 1..Len(lex) :
     /\ WeightAt(lex, k, concept) > W_ONE \div 2
     /\ \A j \in 1..Len(lex) : WeightAt(lex, j, concept) <= WeightAt(lex, k, concept)
     /\ \A j \in 1..(k - 1) : WeightAt(lex, j, concept) < WeightAt(lex, k, concept)}
\* the last update call consumed with nothing in the way of a chirp
FreeToChirp ==
  /\ Consumed /\ ~InChirpCooldown /\ ChirpCount(last.pre.events) < config_chirp_volume
  /\ \/ FirstDominants(PostBlob.lexicon, ConsumedConcept) /= {}
     \/ \E k \in 1..Len(ChirpIdPool) : ChirpIdPool[k] \notin last.pre.used_chirp_ids
\* exactly one event was appended, a chirp of the consumer at its position
\* with a symbol that is the one of the entries dom of its lexicon, or with
\* none of those a new symbol seeded at 0.2
OneChirpWith(dom) ==
  /\ Len(events) = Len(last.pre.events) + 1
  /\ SubSeq(events, 1, Len(last.pre.events)) = last.pre.events
  /\ LET ev == events[Len(events)]
     IN  /\ ev[1] = "chirp" /\ ev[2] = PreBlob.id
         /\ ev[4] = PreBlob.x /\ ev[5] = PreBlob.y
         /\ IF dom /= {}
            THEN \E k \in dom : ev[3] = PostBlob.lexicon[k].id
            ELSE /\ ev[3] \notin last.pre.used_chirp_ids
                 /\ ev[3] \in used_chirp_ids
                 /\ LexGet(PostBlob.lexicon, ev[3], ConsumedConcept) = W_ONE \div 5

\* C18 as stated: a consumption with the cooldown elapsed and fewer than
\* CHIRP_VOLUME chirps queued appends exactly one chirp event with the
\* consumer's id and position; its symbol is the one with the strictly
\* greatest weight above 0.5 for the concept when there is one, otherwise a
\* newly allocated symbol seeded at 0.2.
C18_StrictlyGreatest ==
  FreeToChirp => OneChirpWith(StrictDominants(PostBlob.lexicon, ConsumedConcept))

\* C18 amended: the same, the symbol being the first in insertion order among
\* those holding the greatest weight above 0.5 when there is one.
C18_FirstOfGreatest ==
  FreeToChirp =>
     /\ OneChirpWith(FirstDominants(PostBlob.lexicon, ConsumedConcept))
     /\ PostBlob.last_chirp_time = CallTick
     /\ PostBlob.last_emit_tick = CallTick
     /\ PostBlob.last_emit_concept = ConsumedConcept

\* C18 witness: a blob with two symbols tied at the greatest weight above 0.5
\* consumed and chirped the first of them.
C18_TieChirpsFirst ==
  /\ FreeToChirp
  /\ StrictDominants(PostBlob.lexicon, ConsumedConcept) = {}
  /\ FirstDominants(PostBlob.lexicon, ConsumedConcept) /= {}
  /\ events[Len(events)][3] = PostBlob.lexicon[1].id

\* the guess of a listener as the claim words it
GuessOf(b) ==
  IF b.hunger >= HUNGER_SEEK /\ (b.thirst < THIRST_SEEK \/ b.hunger >= b.thirst)
  THEN "food"
  ELSE IF b.thirst >= THIRST_SEEK THEN "water" ELSE "none"
\* the pending entries a listener b adds at tick t for the queue evs, a chirp
\* at exactly CHIRP_RADIUS counting as heard when closed
HeardEntries(b, evs, t, closed) ==
  LET d2(e) == (b.x - e[4]) * (b.x - e[4]) + (b.y - e[5]) * (b.y - e[5])
      r2 == CHIRP_RADIUS * CHIRP_RADIUS
      audible == SelectSeq(evs, LAMBDA e :
                    /\ e[1] = "chirp" /\ e[2] /= b.id
                    /\ (d2(e) < r2 \/ (closed /\ d2(e) = r2)))
  IN  IF GuessOf(b) = "none" THEN << >>
      ELSE [k \in 1..Len(audible) |->
              << audible[k][3], GuessOf(b), t + REINFORCEMENT_DELAY_TICKS >>]
\* the pending queue of the updated blob after its hearing and expiry steps
\* is its earlier queue, less the expired entries, and then entries
PendingGrewBy(entries) ==
  MidBlob.heard_chirps_pending_reinforcement =
     SelectSeq(PreBlob.heard_chirps_pending_reinforcement,
               LAMBDA e : e[3] > CallTick) \o entries

\* C19 as stated: the hearing step at tick t appends one pending entry
\* (symbol, guess, t + REINFORCEMENT_DELAY_TICKS) for each queued chirp of
\* another blob at a distance of CHIRP_RADIUS or less, and nothing else.
C19_HeardWithinRadius ==
  (UpdateCalled /\ PreBlob.alive) =>
     PendingGrewBy(HeardEntries(PreBlob, last.pre.events, CallTick, TRUE))

\* C19 amended: the same for each queued chirp of another blob at a distance
\* strictly less than CHIRP_RADIUS.
C19_HeardInsideRadius ==
  (UpdateCalled /\ PreBlob.alive) =>
     PendingGrewBy(HeardEntries(PreBlob, last.pre.events, CallTick, FALSE))

\* C19 witness: a listener at exactly CHIRP_RADIUS from a chirp of another
\* blob, with a need to guess from, added nothing.
C19_SilentAtRadius ==
  /\ UpdateCalled /\ PreBlob.alive
  /\ GuessOf(PreBlob) /= "none"
  /\ HeardEntries(PreBlob, last.pre.events, CallTick, TRUE) /= << >>
  /\ HeardEntries(PreBlob, last.pre.events, CallTick, FALSE) = << >>
  /\ Len(MidBlob.heard_chirps_pending_reinforcement)
        = Len(PreBlob.heard_chirps_pending_reinforcement)

\* how many entries of a pending queue pair symbol cid with concept
PendingCount(q, cid, concept) ==
  Cardinality({k \in 1..Len(q) : q[k][1] = cid /\ q[k][2] = concept})
\* the symbols a blob knows: those of its lexicon and of its pending queue
KnownSymbols(b) ==
  {b.lexicon[k].id : k \in 1..Len(b.lexicon)}
  \cup {b.heard_chirps_pending_reinforcement[k][1] :
          k \in 1..Len(b.heard_chirps_pending_reinforcement)}

\* C20: a consumption of concept c raises the weight of (symbol, c) by 0.2,
\* capped at 1.0, once for every pending entry (symbol, c, any expiry), and
\* removes those entries; the other entries stay in order and the weights of
\* all other pairs are unchanged.
C20_PositiveReinforcement ==
  Consumed =>
     LET q == MidBlob.heard_chirps_pending_reinforcement
     IN  /\ PostBlob.heard_chirps_pending_reinforcement =
               SelectSeq(q, LAMBDA e : e[2] /= ConsumedConcept)
         /\ \A cid \in KnownSymbols(MidBlob) : \A cc \in {"food", "water"} :
               LexGet(PostBlob.lexicon, cid, cc) =
                  IF cc = ConsumedConcept /\ PendingCount(q, cid, cc) > 0
                  THEN Min(W_ONE, LexGet(MidBlob.lexicon, cid, cc)
                                     + PendingCount(q, cid, cc) * (W_ONE \div 5))
                  ELSE LexGet(MidBlob.lexicon, cid, cc)

\* C20 witness: a consumption reinforced a pair twice up to the cap, a pair
\* the lexicon did not hold, and left an entry of the other concept queued.
C20_ReinforcedToCap ==
  /\ Consumed
  /\ \E cid \in KnownSymbols(MidBlob) :
        /\ PendingCount(MidBlob.heard_chirps_pending_reinforcement, cid, ConsumedConcept) = 2
        /\ LexGet(PostBlob.lexicon, cid, ConsumedConcept) = W_ONE
  /\ \E cid \in KnownSymbols(MidBlob) :
        /\ LexGet(MidBlob.lexicon, cid, ConsumedConcept) = 0
        /\ LexGet(PostBlob.lexicon, cid, ConsumedConcept) = W_ONE \div 5
  /\ PostBlob.heard_chirps_pending_reinforcement /= << >>

\* how many entries of a pending queue pair cid with concept and have an
\* expiry tick that has arrived at tick t
ExpiredCount(q, cid, concept, t) ==
  Cardinality({k \in 1..Len(q) : q[k][1] = cid /\ q[k][2] = concept /\ q[k][3] <= t})
\* a weight after one decay step of dt ticks: times (1 - LEXICON_DECAY * dt),
\* deleted (0: absent) below 0.001
DecayedWeight(w, dt) ==
  LET D == LEXICON_DECAY_DEN * TICK_RATE_HZ
      d == (w * (D - dt)) \div D
  IN  IF d < W_ONE \div 1000 THEN 0 ELSE d
\* the entries of the queue of the updated blob whose expiry is still ahead
StillPending ==
  SelectSeq(PreBlob.heard_chirps_pending_reinforcement, LAMBDA e : e[3] > CallTick)

\* C21: the update at tick t lowers the weight of the pair of every pending
\* entry with expiry <= t by 0.05, floored at 0, and removes the entry; the
\* entries with expiry > t stay, in order and untouched.  The weights are
\* read after the decay step that follows in the same update.
C21_NegativeReinforcement ==
  (UpdateCalled /\ PreBlob.alive) =>
     LET q == PreBlob.heard_chirps_pending_reinforcement
         mq == MidBlob.heard_chirps_pending_reinforcement
     IN  /\ Len(mq) >= Len(StillPending)
         /\ SubSeq(mq, 1, Len(StillPending)) = StillPending
         /\ \A k \in 1..Len(mq) : mq[k][3] > CallTick
         /\ \A cid \in KnownSymbols(PreBlob) : \A cc \in {"food", "water"} :
               ExpiredCount(q, cid, cc, CallTick) > 0 =>
                  \E dt \in DtSet :
                     LexGet(MidBlob.lexicon, cid, cc) =
                        DecayedWeight(Max(0, LexGet(PreBlob.lexicon, cid, cc)
                                               - ExpiredCount(q, cid, cc, CallTick)
                                                   * (W_ONE \div 20)), dt)

\* C21 witness: in the tick loop an entry whose expiry is the current tick
\* lowered a weight, one whose expiry is the next tick stayed queued, and a
\* pair without weight was floored at 0.
C21_ExpiredOnItsTick ==
  /\ last.op = "update" /\ PreBlob.alive
  /\ \E k \in 1..Len(PreBlob.heard_chirps_pending_reinforcement) :
        LET e == PreBlob.heard_chirps_pending_reinforcement[k]
        IN  /\ e[3] = CallTick
            /\ LexGet(MidBlob.lexicon, e[1], e[2]) > 0
            /\ LexGet(MidBlob.lexicon, e[1], e[2]) < LexGet(PreBlob.lexicon, e[1], e[2]) - W_ONE \div 20
  /\ \E k \in 1..Len(PreBlob.heard_chirps_pending_reinforcement) :
        LET e == PreBlob.heard_chirps_pending_reinforcement[k]
        IN  e[3] = CallTick /\ LexGet(PreBlob.lexicon, e[1], e[2]) < W_ONE \div 20
  /\ \E k \in 1..Len(MidBlob.heard_chirps_pending_reinforcement) :
        MidBlob.heard_chirps_pending_reinforcement[k][3] = CallTick + 1

\* C22: an update of a live blob multiplies every weight by
\* (1 - LEXICON_DECAY * dt), deletes the weights below 0.001 and the symbols
\* left without a concept; every stored weight lies in [0.001, 1.0] and no
\* symbol has an empty concept table.
C22_LexiconDecay ==
  /\ \A k \in 1..Len(blobs) : \A n \in 1..Len(blobs[k].lexicon) :
        LET e == blobs[k].lexicon[n]
        IN  /\ DOMAIN e.w /= {}
            /\ \A cc \in DOMAIN e.w : W_ONE \div 1000 <= e.w[cc] /\ e.w[cc] <= W_ONE
  /\ (UpdateCalled /\ PreBlob.alive) =>
        /\ \A cid \in KnownSymbols(PreBlob) : \A cc \in {"food", "water"} :
              ExpiredCount(PreBlob.heard_chirps_pending_reinforcement, cid, cc, CallTick) = 0 =>
                 \E dt \in DtSet :
                    LexGet(MidBlob.lexicon, cid, cc) =
                       DecayedWeight(LexGet(PreBlob.lexicon, cid, cc), dt)
        /\ \A n \in 1..Len(MidBlob.lexicon) :
              \E j \in 1..Len(PreBlob.lexicon) :
                 MidBlob.lexicon[n].id = PreBlob.lexicon[j].id

\* C22 witness: an update deleted a weight that fell below 0.001 and with it
\* the symbol, which had no other concept, and kept another weight decayed.
C22_PrunedSymbol ==
  /\ UpdateCalled /\ PreBlob.alive
  /\ \E j \in 1..Len(PreBlob.lexicon) :
        /\ \A cc \in DOMAIN PreBlob.lexicon[j].w :
              /\ PreBlob.lexicon[j].w[cc] >= W_ONE \div 1000
              /\ ExpiredCount(PreBlob.heard_chirps_pending_reinforcement,
                              PreBlob.lexicon[j].id, cc, CallTick) = 0
        /\ \A n \in 1..Len(MidBlob.lexicon) : MidBlob.lexicon[n].id /= PreBlob.lexicon[j].id
  /\ \E n \in 1..Len(MidBlob.lexicon) : \E cc \in DOMAIN MidBlob.lexicon[n].w :
        /\ MidBlob.lexicon[n].w[cc] < LexGet(PreBlob.lexicon, MidBlob.lexicon[n].id, cc)
        /\ ExpiredCount(PreBlob.heard_chirps_pending_reinforcement,
                        MidBlob.lexicon[n].id, cc, CallTick) = 0

\* the update call went on to the movement step
ReachedMovement == UpdateCalled /\ PreBlob.alive /\ PostBlob.alive /\ ~last.raised
\* what the memory decay step leaves of a memory (position pos, age age) of
\* the resource type after dt ticks, on the tiles of the world
DecayedMemory(pos, age, type, dt) ==
  IF pos = << >> THEN [pos |-> << >>, age |-> age]
  ELSE IF age + dt > MEMORY_SPAN_S * TICK_RATE_HZ
          \/ get_tile(last.pre.tiles, pos[1], pos[2]) /= type
       THEN [pos |-> << >>, age |-> 0]
       ELSE [pos |-> pos, age |-> age + dt]

\* C23: the memory decay step clears a food memory exactly when its age plus
\* dt is > MEMORY_SPAN_S or its tile no longer holds FOOD, and otherwise keeps
\* the position and adds dt to the age; and so, independently, for water.
C23_MemoryDecay ==
  (UpdateCalled /\ PreBlob.alive) =>
     \E dt \in DtSet :
        LET f == DecayedMemory(PreBlob.last_food_pos, PreBlob.food_mem_age, FOOD, dt)
            w == DecayedMemory(PreBlob.last_water_pos, PreBlob.water_mem_age, WATER, dt)
        IN  /\ MidBlob.last_food_pos = f.pos /\ MidBlob.food_mem_age = f.age
            /\ MidBlob.last_water_pos = w.pos /\ MidBlob.water_mem_age = w.age

\* C23 witness: a food memory reached exactly the age MEMORY_SPAN_S and was
\* kept while the water memory of the same blob was cleared.
C23_KeptAtSpan ==
  /\ UpdateCalled /\ PreBlob.alive
  /\ MidBlob.food_mem_age = MEMORY_SPAN_S * TICK_RATE_HZ
  /\ MidBlob.last_food_pos = PreBlob.last_food_pos
  /\ MidBlob.last_food_pos /= << >>
  /\ PreBlob.last_water_pos /= << >>
  /\ MidBlob.last_water_pos = << >> /\ MidBlob.water_mem_age = 0

\* the food and the water condition of target selection
WantsFood(b) == b.hunger >= HUNGER_SEEK /\ b.last_food_pos /= << >>
WantsWater(b) == b.thirst >= THIRST_SEEK /\ b.last_water_pos /= << >>

\* C24: target selection returns the food memory when the food condition
\* holds and the water condition fails or hunger >= thirst, the water memory
\* when the water condition holds and the food condition fails or thirst >
\* hunger, and no target otherwise.
C24_TargetSelection ==
  ReachedMovement =>
     last.target =
        IF WantsFood(PostBlob) /\ (~WantsWater(PostBlob) \/ PostBlob.hunger >= PostBlob.thirst)
        THEN PostBlob.last_food_pos
        ELSE IF WantsWater(PostBlob)
                /\ (~WantsFood(PostBlob) \/ PostBlob.thirst > PostBlob.hunger)
             THEN PostBlob.last_water_pos
             ELSE << >>

\* C24 witness: a blob with both memories and hunger equal to thirst, both
\* at their thresholds or above, chose the food memory.
C24_EqualNeedsChoseFood ==
  /\ ReachedMovement
  /\ WantsFood(PostBlob) /\ WantsWater(PostBlob)
  /\ PostBlob.hunger = PostBlob.thirst
  /\ PostBlob.last_food_pos /= PostBlob.last_water_pos
  /\ last.target = PostBlob.last_food_pos

\* C25: after every update that reaches the movement step the blob is inside
\* the world, 0 <= x <= width - BLOB_SIZE and 0 <= y <= height - BLOB_SIZE,
\* on the grid.
C25_InsideWorldOnGrid ==
  ReachedMovement =>
     /\ 0 <= PostBlob.x /\ PostBlob.x <= WorldWidth - BLOB_SIZE
     /\ 0 <= PostBlob.y /\ PostBlob.y <= WorldHeight - BLOB_SIZE
     /\ PostBlob.x % GRID_STEP = 0
     /\ PostBlob.y % GRID_STEP = 0

\* C25 witness: a blob off the grid moving out of the world on the right was
\* put back on the last grid position inside it.
C25_ClampedAndSnapped ==
  /\ ReachedMovement
  /\ PreBlob.x % GRID_STEP /= 0
  /\ PreBlob.x + PostBlob.vx > WorldWidth - BLOB_SIZE
  /\ PostBlob.x = ((WorldWidth - BLOB_SIZE) \div GRID_STEP) * GRID_STEP

\* C26: no tick aborts: on_update never ends in an exception.
C26_NoTickAborts == pc /= "raised"

\* Jaccard similarity |A n B| / |A u B| in units of 1/W_ONE, 1.0 for two empty sets
JaccardOf(A, B) ==
  IF A \cup B = {} THEN W_ONE
  ELSE (Cardinality(A \cap B) * W_ONE) \div Cardinality(A \cup B)

\* the symbols of a lexicon whose weight for the concept reaches the threshold
DominantOf(lex, concept) ==
  { lex[k].id : k \in { j \in 1..Len(lex) :
       concept \in DOMAIN lex[j].w /\ lex[j].w[concept] * 10 >= W_ONE * 6 } }

\* the sum over the unordered pairs ps of J_food + J_water
RECURSIVE PairScores(_, _)
PairScores(bl, ps) ==
  IF ps = {} THEN 0
  ELSE LET p == CHOOSE q \in ps : TRUE
       IN  JaccardOf(DominantOf(bl[p[1]].lexicon, "food"),
                     DominantOf(bl[p[2]].lexicon, "food"))
           + JaccardOf(DominantOf(bl[p[1]].lexicon, "water"),
                       DominantOf(bl[p[2]].lexicon, "water"))
           + PairScores(bl, ps \ {p})

UnorderedPairs(n) == { p \in (1..n) \X (1..n) : p[1] < p[2] }

\* the mean over the pairs of (J_food + J_water) / 2
PairMean(bl) == PairScores(bl, UnorderedPairs(Len(bl))) \div (2 * Cardinality(UnorderedPairs(Len(bl))))

\* update_convergence was called on the list blobs holds, on an interval tick
ConvergenceAsked ==
  /\ last.op = "convergence"
  /\ last.conv_tick % CONVERGENCE_INTERVAL = 0

\* what the result is by the claim, but for a list of no blob; a unit of
\* 1/W_ONE is left to rounding
ConvergenceByPairs ==
  /\ Len(blobs) = 1 => last.conv = W_ONE
  /\ Len(blobs) >= 2 =>
       /\ last.conv - PairMean(blobs) \in -1..1
       /\ 0 <= last.conv /\ last.conv <= W_ONE
       /\ (\A k \in 1..Len(blobs) : blobs[k].lexicon = blobs[1].lexicon)
             => last.conv = W_ONE
       /\ ( /\ \A k \in 1..Len(blobs), c \in {"food", "water"} :
                  DominantOf(blobs[k].lexicon, c) /= {}
            /\ \A p \in UnorderedPairs(Len(blobs)), c \in {"food", "water"} :
                  DominantOf(blobs[p[1]].lexicon, c)
                     \cap DominantOf(blobs[p[2]].lexicon, c) = {} )
             => last.conv = 0

\* C29 as stated: on an interval tick update_convergence returns the mean
\* over the unordered pairs of (J_food + J_water) / 2, which is 1.0 for
\* identical lexicons and 0.0 for non-empty pairwise disjoint dominant sets,
\* and 1.0 for a population of fewer than 2 agents, 0 or 1.
C29_FewerThanTwoIsOne ==
  ConvergenceAsked =>
     /\ ConvergenceByPairs
     /\ Len(blobs) = 0 => last.conv = W_ONE

\* C29 amended: as stated for a population of 1 agent or more; for a
\* population of 0 agents update_convergence returns None.
C29_PairMeanOrNone ==
  ConvergenceAsked =>
     /\ ConvergenceByPairs
     /\ Len(blobs) = 0 => last.conv = -1

\* C29 witness: three agents whose lexicons overlap in part got a third.
C29_PartialOverlap ==
  /\ ConvergenceAsked
  /\ Len(blobs) = 3
  /\ last.conv = W_ONE \div 3

\* the ticks of the log's entries increase
LogInOrder ==
  \A k \in 1..(Len(convergence_log) - 1) :
     convergence_log[k][1] < convergence_log[k + 1][1]

\* the log holds an entry of the current tick
LoggedThisTick ==
  /\ convergence_log /= << >>
  /\ convergence_log[Len(convergence_log)][1] = current_tick

IdsOf(bl) == { bl[k].id : k \in 1..Len(bl) }

\* C27: agent ids are unique and increase in allocation order: no two agents
\* of the list, the dead included, share an id; every id is below the
\* counter, which never goes back; and an agent that enters the list has an
\* id the counter had not reached before the step, so that no id of an
\* earlier agent, dead or discarded at the cap, comes back.
C27_AgentIdsUnique ==
  /\ \A k, j \in 1..Len(blobs) : k /= j => blobs[k].id /= blobs[j].id
  /\ \A k \in 1..Len(blobs) : 0 <= blobs[k].id /\ blobs[k].id < next_blob_id
  /\ last.pre.next_blob_id <= next_blob_id
  /\ \A id \in IdsOf(blobs) \ IdsOf(last.pre.blobs) :
        last.pre.next_blob_id <= id
  /\ Cardinality(IdsOf(blobs) \ IdsOf(last.pre.blobs))
        <= next_blob_id - last.pre.next_blob_id

\* C27 witness: a blob made with the next id at the population cap was
\* discarded and its id is spent.
C27_IdSpentAtCap ==
  /\ last.op = "add"
  /\ Len(last.pre.blobs) = MAX_BLOBS
  /\ IdsOf(blobs) = IdsOf(last.pre.blobs)
  /\ next_blob_id = last.pre.next_blob_id + 1

\* the symbols the pool has handed out in the last step
NewSymbols == used_chirp_ids \ last.pre.used_chirp_ids

\* the last update call consumed, past its cooldown, without a dominant
\* symbol and with every id of the pool handed out
ChirpWithoutSymbol ==
  /\ Consumed /\ ~InChirpCooldown
  /\ FirstDominants(PostBlob.lexicon, ConsumedConcept) = {}
  /\ \A k \in 1..Len(ChirpIdPool) : ChirpIdPool[k] \in last.pre.used_chirp_ids

\* C28: get_new_chirp_id hands out each id of 0..255 at most once: a step
\* hands out at most one id, one that was never handed out before, and the
\* ids handed out stay so; with all 256 handed out a broadcast that needs a
\* new symbol appends no event, adds no symbol to a lexicon (the weights
\* change as the reinforcement of the consumption alone changes them, C20)
\* and raises nothing.
C28_SymbolsOnceThenNone ==
  /\ last.pre.used_chirp_ids \subseteq used_chirp_ids
  /\ used_chirp_ids \subseteq 0..255
  /\ Cardinality(used_chirp_ids) <= chirp_pos
  /\ Cardinality(NewSymbols) <= 1
  /\ \A k \in 1..Len(events) :
        events[k][1] = "chirp" => events[k][3] \in 0..255
  /\ (UpdateCalled /\ NewSymbols /= {}) =>
        \A id \in NewSymbols :
           /\ LexGet(PostBlob.lexicon, id, ConsumedConcept) = W_ONE \div 5
           /\ \A k \in 1..Len(last.pre.blobs) : id \notin KnownSymbols(last.pre.blobs[k])
  /\ ChirpWithoutSymbol =>
        /\ ~last.raised
        /\ pc /= "raised"
        /\ events = last.pre.events
        /\ NewSymbols = {}
        /\ { PostBlob.lexicon[k].id : k \in 1..Len(PostBlob.lexicon) }
              \subseteq KnownSymbols(MidBlob)
        /\ PostBlob.last_chirp_time = PreBlob.last_chirp_time
        /\ \A k \in 1..Len(blobs) :
              k /= last.i => blobs[k].lexicon = last.pre.blobs[k].lexicon

\* C28 witness: the last id of the pool went to one consumer and the next
\* consumer of the tick, with no id left, stayed silent.
C28_SilentWhenExhausted ==
  /\ ChirpWithoutSymbol
  /\ last.op = "update"
  /\ Len(events) = 1
  /\ events[1][3] = ChirpIdPool[Len(ChirpIdPool)]


(* ------------------------------ C31 ------------------------------------- *)
\* the cell a coordinate lies in
CellOf(at) == << GridAlign(at[1]), GridAlign(at[2]) >>

\* a key of World.tiles that is a pair of multiples of GRID_STEP inside the grid
OnGrid(c) ==
  /\ c[1] % GRID_STEP = 0
  /\ c[2] % GRID_STEP = 0
  /\ 0 <= c[1] /\ c[1] < grid_width(world) * GRID_STEP
  /\ 0 <= c[2] /\ c[2] < grid_height(world) * GRID_STEP

\* C31: in every reachable state every key of World.tiles is a pair of
\* multiples of GRID_STEP inside the grid and its value is FOOD or WATER, never
\* EMPTY, whatever spawn_resources, consume_tile and the agents' consumption
\* did (the program has no carcass drop, see C6); consume_tile removes exactly
\* the entry of the aligned cell and changes nothing when that cell is empty.
C31_TilesOnGridAndConsume ==
  /\ \A c \in DOMAIN tiles : OnGrid(c) /\ tiles[c] \in {FOOD, WATER}
  /\ last.op = "consume" =>
        LET c == CellOf(last.at)
            t == last.pre.tiles
        IN  /\ DOMAIN tiles = (DOMAIN t) \ {c}
            /\ \A k \in DOMAIN tiles : tiles[k] = t[k]
            /\ c \notin DOMAIN t => tiles = t

\* C31 witness: consume_tile, called with a coordinate off the grid lines,
\* removed the tile of the aligned cell and left the other tile alone.
C31_ConsumedAlignedCell ==
  /\ last.op = "consume"
  /\ CellOf(last.at) /= last.at
  /\ CellOf(last.at) \in DOMAIN last.pre.tiles
  /\ CellOf(last.at) \notin DOMAIN tiles
  /\ tiles /= << >>

(* ------------------------------ C32 ------------------------------------- *)
\* the cells spawn_resources has written a tile of the kind into
Spawned(kind) ==
  { c \in (DOMAIN tiles) \ (DOMAIN world.before) : tiles[c] = kind }

\* while spawn_resources runs: every tile that was there is there unchanged,
\* every written cell is on the grid, and at most food_n FOOD and water_n
\* WATER tiles have been written, with nothing raised
C32_SpawnSafe ==
  world.op = "spawn" =>
    /\ \A c \in DOMAIN world.before :
          c \in DOMAIN tiles /\ tiles[c] = world.before[c]
    /\ (DOMAIN tiles) \ (DOMAIN world.before) = Spawned(FOOD) \cup Spawned(WATER)
    /\ \A c \in Spawned(FOOD) \cup Spawned(WATER) : OnGrid(c)
    /\ Cardinality(Spawned(FOOD)) = world.placed_food
    /\ Cardinality(Spawned(WATER)) = world.placed_water
    /\ world.placed_food <= world.food_n
    /\ world.placed_water <= world.water_n
    /\ world.placed_food + world.food_left <= world.food_n
    /\ world.placed_water + world.water_left <= world.water_n
    /\ world.attempts <= max_attempts(world)
    /\ pc = "idle"

\* C32: spawn_resources(food_n, water_n) returns from every grid state, the
\* full grid included; it writes FOOD or WATER only into cells that were EMPTY,
\* never changing a tile that was there, adds at most food_n FOOD and at most
\* water_n WATER tiles, and places fewer, raising nothing, when the bounded
\* number of attempts finds no empty cell.
C32_SpawnTerminatesSafely ==
  /\ []C32_SpawnSafe
  /\ (world.op = "spawn") ~> (world.op = "idle")

\* C32 witness: a call on a completely full grid has run all its iterations,
\* asked for tiles and placed none, the grid being as it was.
C32_FullGridPlacedNone ==
  /\ world.op = "spawn"
  /\ world.food_left + world.water_left = 0
  /\ world.food_n > 0 /\ world.water_n > 0
  /\ DOMAIN world.before = GridCells(world)
  /\ GridCells(world) /= {}
  /\ world.placed_food + world.placed_water = 0
  /\ tiles = world.before


(* ------------------------------ C33 ------------------------------------- *)
\* the last update call consumed, its cooldown elapsed, while CHIRP_VOLUME
\* chirps were queued
SuppressedByVolume ==
  /\ Consumed /\ ~InChirpCooldown
  /\ ChirpCount(last.pre.events) >= config_chirp_volume

\* C33: a broadcast attempt suppressed because CHIRP_VOLUME chirps are queued
\* has no effect: the event queue, the emitter's last_chirp_time,
\* last_emit_tick and last_emit_concept and the symbol pool are unchanged, and
\* the emitter's lexicon gains no symbol (no symbol is drawn for a chirp that
\* is not emitted).
C33_SuppressedHasNoEffect ==
  SuppressedByVolume =>
    /\ events = last.pre.events
    /\ PostBlob.last_chirp_time = PreBlob.last_chirp_time
    /\ PostBlob.last_emit_tick = PreBlob.last_emit_tick
    /\ PostBlob.last_emit_concept = PreBlob.last_emit_concept
    /\ chirp_pos = last.pre.chirp_pos
    /\ used_chirp_ids = last.pre.used_chirp_ids
    /\ { PostBlob.lexicon[k].id : k \in 1..Len(PostBlob.lexicon) }
          \subseteq KnownSymbols(MidBlob)


(* ------------------------------ C34 ------------------------------------- *)
\* a blob that meets the hunger, thirst and energy thresholds of reproduction
MeetsThresholds(b) ==
  /\ b.hunger < REPRO_HUNGER_THRESH
  /\ b.thirst < REPRO_THIRST_THRESH
  /\ b.energy >= REPRO_ENERGY_THRESH
\* its reproduction cooldown has not elapsed at the tick
OnReproCooldown(b, tick) == tick - b.last_repro_tick < REPRO_COOLDOWN_TICKS
\* the live blobs other than blobs[i] within REPRO_NEARBY_RADIUS of it, the
\* radius included, that meet the thresholds
Candidates(bl, i) ==
  { j \in 1..Len(bl) :
      /\ j /= i
      /\ bl[j].alive
      /\ (bl[i].x - bl[j].x) * (bl[i].x - bl[j].x)
            + (bl[i].y - bl[j].y) * (bl[i].y - bl[j].y)
            <= REPRO_NEARBY_RADIUS * REPRO_NEARBY_RADIUS
      /\ MeetsThresholds(bl[j]) }
\* the first of them in population order, 0 when there is none
FirstCandidate(bl, i) ==
  IF Candidates(bl, i) = {} THEN 0
  ELSE CHOOSE j \in Candidates(bl, i) : \A k \in Candidates(bl, i) : j <= k
\* the blob of the last update call entered it ready to reproduce, below the
\* cap, with a first candidate that was ready too
EnteredReady ==
  /\ UpdateCalled /\ PreBlob.alive
  /\ MeetsThresholds(PreBlob)
  /\ ~OnReproCooldown(PreBlob, CallTick)
  /\ Len(last.pre.blobs) < config_max_blobs
  /\ FirstCandidate(last.pre.blobs, last.i) /= 0
  /\ ~OnReproCooldown(last.pre.blobs[FirstCandidate(last.pre.blobs, last.i)], CallTick)

C35_FirstCandidateOrNone ==
  (UpdateCalled /\ PreBlob.alive) =>
    LET first == FirstCandidate(last.pre.blobs, last.i)
    IN  /\ find_mate(last.pre.blobs, last.i) = first
        /\ first /= last.i
        /\ first /= 0 => last.pre.blobs[first].alive
        /\ last.mate \in {0, first}
        /\ (first /= 0 /\ OnReproCooldown(last.pre.blobs[first], CallTick)) =>
              /\ last.mate = 0
              /\ Len(blobs) = Len(last.pre.blobs)
              /\ MidBlob.last_repro_tick = PreBlob.last_repro_tick
              /\ MidBlob.energy <= PreBlob.energy
              /\ PreBlob.energy - MidBlob.energy <= 1

\* C35 witness: a blob ready to reproduce found a first candidate on cooldown
\* while another blob in range was ready, and nobody reproduced.
C35_FirstOnCooldownBlocks ==
  /\ UpdateCalled /\ PreBlob.alive
  /\ last.can_repro
  /\ LET first == FirstCandidate(last.pre.blobs, last.i)
     IN  /\ first /= 0
         /\ OnReproCooldown(last.pre.blobs[first], CallTick)
         /\ \E j \in Candidates(last.pre.blobs, last.i) :
               /\ j /= first
               /\ ~OnReproCooldown(last.pre.blobs[j], CallTick)
  /\ Len(blobs) = Len(last.pre.blobs)


(* ------------------------------ C36 ------------------------------------- *)
\* the last update call sought a target on the grid that a blob can stand on
SoughtTarget ==
  /\ ReachedMovement
  /\ last.target /= << >>
  /\ last.target[1] % GRID_STEP = 0 /\ last.target[2] % GRID_STEP = 0
  /\ 0 <= last.target[1] /\ last.target[1] <= world.width - BLOB_SIZE
  /\ 0 <= last.target[2] /\ last.target[2] <= world.height - BLOB_SIZE
\* the distance on one axis has shrunk by min(distance, SEEK_SPEED)
Approached(t, from, to) ==
  Abs(t - to) = Abs(t - from) - Min(Abs(t - from), SEEK_SPEED)

\* C36: an update that seeks a grid-aligned, in-bounds target shrinks the
\* blob's distance to it on each axis by min(distance, SEEK_SPEED), never
\* raising it or passing the target, with the velocity equal to the step taken;
\* so the blob is on the target after ceil(distance / SEEK_SPEED) such updates,
\* and an update that seeks the position the blob stands on leaves it there
\* with zero velocity.
C36_SeekApproaches ==
  SoughtTarget =>
    /\ Approached(last.target[1], MidBlob.x, PostBlob.x)
    /\ Approached(last.target[2], MidBlob.y, PostBlob.y)
    /\ PostBlob.vx = PostBlob.x - MidBlob.x
    /\ PostBlob.vy = PostBlob.y - MidBlob.y
    /\ (last.target[1] - MidBlob.x) * PostBlob.vx >= 0
    /\ (last.target[2] - MidBlob.y) * PostBlob.vy >= 0
    /\ last.target = << MidBlob.x, MidBlob.y >> =>
          /\ PostBlob.x = MidBlob.x /\ PostBlob.y = MidBlob.y
          /\ PostBlob.vx = 0 /\ PostBlob.vy = 0

\* C36 witness: a blob that started two steps from its target and walked onto
\* it in two ticks ate there, still hungry sought the same position once more,
\* standing on it, and stayed with zero velocity.
C36_ArrivedAndStayed ==
  /\ SoughtTarget
  /\ last.pre.blobs[last.i].id = 0
  /\ ticks_run = 2
  /\ last.op = "direct"
  /\ last.target = << PostBlob.x, PostBlob.y >>
  /\ last.target = << MidBlob.x, MidBlob.y >>
  /\ PostBlob.vx = 0 /\ PostBlob.vy = 0
  /\ PostBlob.last_food_pos = last.target
  /\ Len(emit_log) > 0


(* ------------------------------ C37 ------------------------------------- *)
\* the entries the update call found queued or heard that outlived its expiry
\* step and were not taken by its consumption
LeftPending ==
  SelectSeq(MidBlob.heard_chirps_pending_reinforcement,
            LAMBDA e : ~(Consumed /\ e[2] = ConsumedConcept))
\* how many of the entries that outlived the expiry step the consumption took
\* for the pair
TakenCount(cid, concept) ==
  IF Consumed /\ concept = ConsumedConcept
  THEN PendingCount(MidBlob.heard_chirps_pending_reinforcement, cid, concept)
  ELSE 0

\* C37: an update of a live blob resolves every pending entry at most once and
\* in one way: an entry whose expiry tick has come gets the negative
\* reinforcement and is removed before the consumption of that update, even
\* when the consumption matches its guess; an entry that outlives the expiry
\* step gets the positive reinforcement and is removed when the consumption
\* matches its guess, and otherwise stays as it is; so no entry with an expiry
\* tick <= the current tick is left when update returns, and the weight of
\* every pair is the earlier one less 0.05 per expired entry, decayed, plus 0.2
\* per entry the consumption took.
C37_ResolvedOnce ==
  (UpdateCalled /\ PreBlob.alive) =>
     LET q == PreBlob.heard_chirps_pending_reinforcement
         pq == PostBlob.heard_chirps_pending_reinforcement
     IN  /\ \A k \in 1..Len(pq) : pq[k][3] > CallTick
         /\ ~last.raised => pq = LeftPending
         /\ Len(MidBlob.heard_chirps_pending_reinforcement) >= Len(StillPending)
         /\ SubSeq(MidBlob.heard_chirps_pending_reinforcement, 1, Len(StillPending))
               = StillPending
         /\ ~last.raised =>
               \A cid \in KnownSymbols(PreBlob) \cup KnownSymbols(MidBlob) :
                 \A cc \in {"food", "water"} :
                   \E dt \in DtSet :
                     LexGet(PostBlob.lexicon, cid, cc) =
                       Min(W_ONE,
                           DecayedWeight(Max(0, LexGet(PreBlob.lexicon, cid, cc)
                                                  - ExpiredCount(q, cid, cc, CallTick)
                                                      * (W_ONE \div 20)), dt)
                             + TakenCount(cid, cc) * (W_ONE \div 5))

\* C37 witness: a blob consumed on the expiry tick of an entry whose guess was
\* the consumed concept; the entry got the negative reinforcement alone, while
\* another entry of that guess, not yet expired, got the positive one.
C37_ExpiredBeforeConsumption ==
  /\ Consumed
  /\ \E k \in 1..Len(PreBlob.heard_chirps_pending_reinforcement) :
        LET e == PreBlob.heard_chirps_pending_reinforcement[k]
        IN  /\ e[3] = CallTick
            /\ e[2] = ConsumedConcept
            /\ TakenCount(e[1], e[2]) = 0
            /\ LexGet(PostBlob.lexicon, e[1], e[2]) < LexGet(PreBlob.lexicon, e[1], e[2])
  /\ \E k \in 1..Len(PreBlob.heard_chirps_pending_reinforcement) :
        LET e == PreBlob.heard_chirps_pending_reinforcement[k]
        IN  /\ e[3] > CallTick
            /\ e[2] = ConsumedConcept
            /\ LexGet(PostBlob.lexicon, e[1], e[2]) > LexGet(PreBlob.lexicon, e[1], e[2])


(* ------------------------------ C38 ------------------------------------- *)
\* the update calls the agent loop of tick t has made: their places in
\* heard_log
LoopCalls(t) == { k \in 1..Len(heard_log) : heard_log[k].tick = t /\ heard_log[k].pos /= 0 }
\* the agent loop of tick t has updated the blob with the id at list position p
UpdatedAt(t, p, id) ==
  \E k \in LoopCalls(t) : heard_log[k].pos = p /\ heard_log[k].id = id

\* C38: in each tick the agent loop updates every member of the list at most
\* once and in list order; while the loop runs no blob leaves the list, a blob
\* that died stays where it was, and every blob before the loop position,
\* an offspring appended in this tick included, has been updated in this tick
\* unless it was dead at its turn; at the end of the tick every live blob has
\* had its update of the tick and the list keeps exactly the live blobs, in
\* order.
C38_OncePerTickInListOrder ==
  /\ \A a \in 1..Len(heard_log) : \A b \in 1..Len(heard_log) :
        (a < b /\ heard_log[a].tick = heard_log[b].tick
           /\ heard_log[a].pos /= 0 /\ heard_log[b].pos /= 0) =>
           /\ heard_log[a].pos < heard_log[b].pos
           /\ heard_log[a].id /= heard_log[b].id
  /\ pc = "loop" =>
        \A k \in 1..Len(blobs) :
           k < idx => (UpdatedAt(current_tick, k, blobs[k].id) \/ ~blobs[k].alive)
  /\ last.op \in {"update", "skip"} =>
        /\ Len(blobs) >= Len(last.pre.blobs)
        /\ \A k \in 1..Len(last.pre.blobs) :
              /\ blobs[k].id = last.pre.blobs[k].id
              /\ k /= last.i => blobs[k].alive = last.pre.blobs[k].alive
        /\ \A k \in (Len(last.pre.blobs) + 1)..Len(blobs) : k >= idx
  /\ last.op = "end" =>
        /\ blobs = SelectSeq(last.pre.blobs, LAMBDA b : b.alive)
        /\ \A k \in 1..Len(blobs) : blobs[k].alive
        /\ \A k \in 1..Len(last.pre.blobs) :
              last.pre.blobs[k].alive =>
                 UpdatedAt(current_tick, k, last.pre.blobs[k].id)

\* C38 witness: a tick ended in which a blob died, staying in the list until
\* the filter removed it, and in which an offspring, appended by the update of
\* a blob before it, was updated at its place at the end of the list.
C38_OffspringUpdatedInBirthTick ==
  /\ last.op = "end"
  /\ \E k \in 1..Len(last.pre.blobs) :
        /\ ~last.pre.blobs[k].alive
        /\ UpdatedAt(current_tick, k, last.pre.blobs[k].id)
  /\ \E k \in LoopCalls(current_tick) :
        /\ heard_log[k].b.last_repro_tick = current_tick
        /\ heard_log[k].b.age_ticks = 0
        /\ heard_log[k].b.wander_propensity > 0
        /\ heard_log[k].id = next_blob_id - 1
        /\ \E j \in LoopCalls(current_tick) :
              j < k /\ heard_log[j].b.last_repro_tick /= current_tick


(* ------------------------------ C39 ------------------------------------- *)
\* the cells whose tile the last step removed
Eaten == (DOMAIN last.pre.tiles) \ (DOMAIN tiles)
\* the update call lowered a need of its blob after the needs step
NeedLowered == PostBlob.hunger < MidBlob.hunger \/ PostBlob.thirst < MidBlob.thirst

\* C39: a tile is consumed by the first blob updated on it and by no other:
\* an update call removes at most the tile under its blob, lowers a need only
\* of its own blob and only when that tile was there, and having consumed
\* leaves the cell EMPTY, so that a blob updated later on the same cell, in
\* that tick or after, finds nothing, lowers no need, sets no memory and
\* emits nothing; no tile comes back; and a blob that remembers a cell keeps
\* the memory through its decay step only while the cell holds the resource.
C39_FirstOnTileConsumes ==
  /\ \A c \in DOMAIN tiles : c \in DOMAIN last.pre.tiles /\ tiles[c] = last.pre.tiles[c]
  /\ (UpdateCalled /\ PreBlob.alive) =>
        /\ Eaten \subseteq { CellOf(<< PreBlob.x, PreBlob.y >>) }
        /\ \A k \in 1..Len(last.pre.blobs) :
              k /= last.i =>
                 /\ blobs[k].hunger = last.pre.blobs[k].hunger
                 /\ blobs[k].thirst = last.pre.blobs[k].thirst
                 /\ blobs[k].last_food_pos = last.pre.blobs[k].last_food_pos
                 /\ blobs[k].last_water_pos = last.pre.blobs[k].last_water_pos
        /\ (PostBlob.alive /\ NeedLowered) => PreTile /= EMPTY
        /\ Consumed =>
              /\ Eaten = { CellOf(<< PreBlob.x, PreBlob.y >>) }
              /\ NeedLowered \/ (MidBlob.hunger = 0 /\ PreTile = FOOD)
                             \/ (MidBlob.thirst = 0 /\ PreTile = WATER)
        /\ (PostBlob.alive /\ PreTile = EMPTY) =>
              /\ ~NeedLowered
              /\ Eaten = {}
              /\ events = last.pre.events
              /\ PostBlob.last_food_pos = MidBlob.last_food_pos
              /\ PostBlob.last_water_pos = MidBlob.last_water_pos
              /\ PostBlob.heard_chirps_pending_reinforcement
                    = MidBlob.heard_chirps_pending_reinforcement
        /\ MidBlob.last_food_pos /= << >> =>
              get_tile(last.pre.tiles, MidBlob.last_food_pos[1], MidBlob.last_food_pos[2]) = FOOD
        /\ MidBlob.last_water_pos /= << >> =>
              get_tile(last.pre.tiles, MidBlob.last_water_pos[1], MidBlob.last_water_pos[2]) = WATER

\* C39 witness: of two hungry blobs on one food tile the first in the list
\* ate it and the second, updated in the same tick, found nothing and stayed
\* hungry; a third blob, which remembered the tile, lost the memory in the
\* decay step of its update.
C39_SecondFoundNothing ==
  /\ last.op = "update"
  /\ last.i = 3
  /\ ticks_run = 1
  /\ PreBlob.last_food_pos = << last.pre.blobs[1].x, last.pre.blobs[1].y >>
  /\ MidBlob.last_food_pos = << >>
  /\ last.pre.blobs[1].x = last.pre.blobs[2].x
  /\ last.pre.blobs[1].y = last.pre.blobs[2].y
  /\ last.pre.blobs[1].alive /\ last.pre.blobs[2].alive
  /\ last.pre.blobs[1].last_food_pos = << last.pre.blobs[1].x, last.pre.blobs[1].y >>
  /\ last.pre.blobs[1].hunger < last.pre.blobs[2].hunger
  /\ last.pre.blobs[2].last_food_pos = << >>
  /\ last.pre.tiles = << >>


(* ------------------------------ C40 ------------------------------------- *)
\* the weight a lexicon gives the pair of a symbol and a concept rose in the
\* last update call after the decay and the expiries
Rose(cid, concept) ==
  LexGet(PostBlob.lexicon, cid, concept) > LexGet(MidBlob.lexicon, cid, concept)
\* no symbol of the lexicon is above 0.5 for the concept
NotReinforced(b, concept) ==
  \A k \in 1..Len(b.lexicon) : LexGet(b.lexicon, b.lexicon[k].id, concept) <= W_ONE \div 2

\* C40: in an update call a weight of the blob's lexicon rises only for the
\* concept consumed, and either the symbol was heard and is pending for that
\* concept (the pending entries come from chirps of other emitters), or it is
\* the symbol just drawn, whose weight is the 0.2 seed; the symbol of an
\* emitted chirp is above 0.5 or just drawn at 0.2.  A consumer past its
\* cooldown with no symbol above 0.5 for the concept draws a new symbol while
\* the pool has one, whatever symbols at or below 0.5 it holds; in cooldown,
\* or with a symbol above 0.5, it draws none.
C40_SeedNeverDominant ==
  /\ (UpdateCalled /\ PreBlob.alive /\ PostBlob.alive) =>
        /\ \A cid \in KnownSymbols(PostBlob) \cup KnownSymbols(MidBlob) :
           \A concept \in {"food", "water"} :
              Rose(cid, concept) =>
                 /\ PreTile /= EMPTY /\ concept = ConsumedConcept
                 /\ \/ /\ cid \in NewSymbols
                       /\ LexGet(PostBlob.lexicon, cid, concept) = W_ONE \div 5
                    \/ \E k \in 1..Len(MidBlob.heard_chirps_pending_reinforcement) :
                          /\ MidBlob.heard_chirps_pending_reinforcement[k][1] = cid
                          /\ MidBlob.heard_chirps_pending_reinforcement[k][2] = concept
        /\ \A k \in 1..Len(MidBlob.heard_chirps_pending_reinforcement) :
              LET e == MidBlob.heard_chirps_pending_reinforcement[k]
              IN  \/ \E n \in 1..Len(PreBlob.heard_chirps_pending_reinforcement) :
                        PreBlob.heard_chirps_pending_reinforcement[n] = e
                  \/ \E n \in 1..Len(last.pre.events) :
                        /\ last.pre.events[n][1] = "chirp"
                        /\ last.pre.events[n][2] /= PreBlob.id
                        /\ last.pre.events[n][3] = e[1]
        /\ \A n \in (Len(last.pre.events) + 1)..Len(events) :
              events[n][1] = "chirp" =>
                 \/ LexGet(PostBlob.lexicon, events[n][3], ConsumedConcept) > W_ONE \div 2
                 \/ /\ events[n][3] \in NewSymbols
                    /\ LexGet(PostBlob.lexicon, events[n][3], ConsumedConcept) = W_ONE \div 5
  /\ Consumed =>
        /\ (~InChirpCooldown /\ NotReinforced(PostBlob, ConsumedConcept)
               /\ last.pre.chirp_pos < Len(ChirpIdPool)) =>
              /\ Cardinality(NewSymbols) = 1
              /\ chirp_pos > last.pre.chirp_pos
              /\ \A cid \in NewSymbols :
                    /\ cid \notin KnownSymbols(MidBlob)
                    /\ LexGet(PostBlob.lexicon, cid, ConsumedConcept) = W_ONE \div 5
                    /\ ChirpCount(last.pre.events) < config_chirp_volume =>
                          events = Append(last.pre.events,
                                          << "chirp", PreBlob.id, cid, MidBlob.x, MidBlob.y >>)
        /\ (InChirpCooldown \/ ~NotReinforced(PostBlob, ConsumedConcept)) =>
              NewSymbols = {}

\* C40 witness: a blob alone in the world, which holds the symbol it drew for
\* "food" at its last broadcast at a weight below the seed, ate again after
\* its cooldown and drew another symbol for "food", the last of the pool.
C40_LoneBlobDrewLastSymbol ==
  /\ Consumed
  /\ Len(last.pre.blobs) = 1
  /\ ConsumedConcept = "food"
  /\ MidBlob.heard_chirps_pending_reinforcement = << >>
  /\ LexGet(MidBlob.lexicon, ChirpIdPool[Len(ChirpIdPool) - 1], "food") > 0
  /\ LexGet(MidBlob.lexicon, ChirpIdPool[Len(ChirpIdPool) - 1], "food") < W_ONE \div 5
  /\ LexGet(PostBlob.lexicon, ChirpIdPool[Len(ChirpIdPool) - 1], "food")
        = LexGet(MidBlob.lexicon, ChirpIdPool[Len(ChirpIdPool) - 1], "food")
  /\ NewSymbols = { ChirpIdPool[Len(ChirpIdPool)] }
  /\ LexGet(PostBlob.lexicon, ChirpIdPool[Len(ChirpIdPool)], "food") = W_ONE \div 5
  /\ chirp_pos = Len(ChirpIdPool)
  /\ Len(events) = 1 /\ events[1][3] = ChirpIdPool[Len(ChirpIdPool)]

====
